---- MODULE Spec2Model ----
(***************************************************************************)
(* Model of the warehouse slot-allocation engine (src/src/lib/firebase.ts) *)
(* and of the placement workflow around it (locations.ts, picking.tsx,     *)
(* goods-in.tsx, actions.ts).                                              *)
(*                                                                         *)
(* Strings are sequences of one-character strings, so that template        *)
(* concatenation, charCodeAt and parseInt are computed, not assumed.       *)
(* JavaScript numbers are records [nan, msi, num, den]: the value          *)
(* msi * Number.MAX_SAFE_INTEGER + num/den, or NaN.                        *)
(***************************************************************************)
EXTENDS Integers, Sequences, FiniteSets, TLC

VARIABLES
  locations,       \* engine: the candidate list handed to findOptimalLocation
  weight,          \* engine: the requested weight
  pc,              \* engine: "ready" before the call, then "returned" or "threw"
  validLocations,  \* engine: the local validLocations (indices into locations)
  result,          \* engine: index of the returned location, or null
  probe,           \* canAcceptWeight call: the location argument
  accepted,        \* canAcceptWeight call: the returned boolean
  sortImpl,        \* engine: which order the build's sort was seen to produce under
                   \* an inconsistent comparator (1 until it is seen)
  second,          \* engine: outcome of a second call with the same arguments
  grouping,        \* levelGroups: level key -> [members, weight] built from the list
  scoreCall,       \* calculateWeightScore calls: the arguments and the scores returned
  dbLocations,     \* workflow: the 'locations' collection, in document order
  dbItems,         \* workflow: the 'items' collection; an item's id is its position
  dbActions,       \* workflow: the 'actions' collection; an action's id is its position
  allocationTasks, \* workflow: 'in' actions whose async suggestion callback is in flight
  suggestedLocations, \* picking page: action id -> suggested location code
  selectedAction,  \* picking page: the selected action's id, or null
  scanDialog,      \* picking page: [open, step]
  request,         \* the call last made: [op, ...arguments]; for handleScan the
                   \* text the scanner delivered
  response,        \* persistence call under examination: what it returned or threw
  peer             \* a second client's picking page: [suggestedLocations,
                   \* selectedAction, scanDialog]

engineVars == <<locations, weight, pc, validLocations, result, probe, accepted,
                sortImpl, second, scoreCall, grouping>>

flowVars == <<dbLocations, dbItems, dbActions, allocationTasks, suggestedLocations,
              selectedAction, scanDialog>>

storeVars == <<request, response, peer>>

vars == <<engineVars, flowVars, storeVars>>

----------------------------------------------------------------------------
(* Bounds of the model *)

\* longest candidate list / level list enumerated
MaxLocations == 3

\* goods-in submissions in one run of the workflow
MaxItems == 2

\* pick actions created in one run of the workflow
MaxPicks == 2

\* actions of either kind created in one run of the workflow
MaxActions == 3

\* scan commits in which a write fails, in one run of the workflow
MaxFaults == 2

\* documents of the collection the repair routine runs on
MaxDocs == 2

\* updateLocation calls made on one document
MaxUpdates == 3

----------------------------------------------------------------------------
(* JavaScript numbers *)

Num(n) == [nan |-> FALSE, msi |-> 0, num |-> n, den |-> 1]

NaN == [nan |-> TRUE, msi |-> 0, num |-> 0, den |-> 1]

\* Number.MAX_SAFE_INTEGER, kept symbolic: 2^53 - 1 does not fit the checker's integers
MAX_SAFE_INTEGER == [nan |-> FALSE, msi |-> 1, num |-> 0, den |-> 1]

RECURSIVE GCD(_, _)
GCD(a, b) == IF b = 0 THEN a ELSE GCD(b, a % b)

Abs(n) == IF n < 0 THEN -n ELSE n

\* a + b
Add(a, b) ==
  IF a.nan \/ b.nan THEN NaN
  ELSE LET g == GCD(a.den, b.den)
       IN [nan |-> FALSE, msi |-> a.msi + b.msi,
           num |-> a.num * (b.den \div g) + b.num * (a.den \div g),
           den |-> (a.den \div g) * b.den]

\* a - b (operands below MAX_SAFE_INTEGER)
Sub(a, b) ==
  IF a.nan \/ b.nan THEN NaN
  ELSE LET g == GCD(a.den, b.den)
       IN [nan |-> FALSE, msi |-> a.msi - b.msi,
           num |-> a.num * (b.den \div g) - b.num * (a.den \div g),
           den |-> (a.den \div g) * b.den]

\* a * b (operands below MAX_SAFE_INTEGER)
Mul(a, b) ==
  IF a.nan \/ b.nan THEN NaN
  ELSE [nan |-> FALSE, msi |-> 0, num |-> a.num * b.num, den |-> a.den * b.den]

\* a / b for b > 0 (operands below MAX_SAFE_INTEGER)
Div(a, b) ==
  IF a.nan \/ b.nan THEN NaN
  ELSE [nan |-> FALSE, msi |-> 0, num |-> a.num * b.den, den |-> a.den * b.num]

\* Math.abs
MathAbs(a) == IF a.nan THEN NaN ELSE [a EXCEPT !.num = Abs(a.num)]

\* sign of a number: -1, 0, 1 (0 for NaN, as Array.prototype.sort reads a NaN comparison)
Sign(a) ==
  IF a.nan THEN 0
  ELSE IF a.msi # 0 THEN (IF a.msi > 0 THEN 1 ELSE -1)
  ELSE IF a.num > 0 THEN 1 ELSE IF a.num < 0 THEN -1 ELSE 0

\* a > b: false when either side is NaN (or undefined, which converts to NaN)
Gt(a, b) == ~a.nan /\ ~b.nan /\ Sign(Sub(a, b)) = 1

\* a <= b: false when either side is NaN
Le(a, b) == ~a.nan /\ ~b.nan /\ Sign(Sub(a, b)) # 1

\* a === b on numbers: NaN equals nothing
StrictEq(a, b) == ~a.nan /\ ~b.nan /\ a.msi = b.msi /\ Sign(Sub(a, b)) = 0

----------------------------------------------------------------------------
(* Sequences and strings *)

\* the sequence f with its elements evaluated once
AsSeq(f) == SelectSeq(f, LAMBDA x : TRUE)

DigitValue ==
  [c \in {"0", "1", "2", "3", "4", "5", "6", "7", "8", "9"} |->
     CASE c = "0" -> 0 [] c = "1" -> 1 [] c = "2" -> 2 [] c = "3" -> 3
       [] c = "4" -> 4 [] c = "5" -> 5 [] c = "6" -> 6 [] c = "7" -> 7
       [] c = "8" -> 8 [] c = "9" -> 9]

\* the UTF-16 code units of the characters the model uses in row names
CharCode == [c \in {"A", "B", "C"} |-> CASE c = "A" -> 65 [] c = "B" -> 66 [] c = "C" -> 67]

\* String.prototype.charCodeAt(0): NaN on the empty string
charCodeAt0(s) == IF Len(s) = 0 THEN NaN ELSE Num(CharCode[s[1]])

RECURSIVE ParseDigits(_, _, _)
ParseDigits(s, i, acc) ==
  IF i > Len(s) \/ s[i] \notin DOMAIN DigitValue THEN acc
  ELSE ParseDigits(s, i + 1, acc * 10 + DigitValue[s[i]])

\* parseInt on a string without sign or blanks: the leading digits, NaN when there are none
parseInt(s) ==
  IF Len(s) = 0 \/ s[1] \notin DOMAIN DigitValue THEN NaN
  ELSE Num(ParseDigits(s, 1, 0))

----------------------------------------------------------------------------
(* The allocation engine: src/src/lib/firebase.ts *)

\* Weight limits per level (in kg)
LEVEL_MAX_WEIGHTS ==
  [l \in {<<"0">>, <<"1">>, <<"2">>, <<"3">>, <<"4">>} |->
     CASE l = <<"0">> -> 2000 [] l = <<"1">> -> 1500 [] l = <<"2">> -> 1000
       [] l = <<"3">> -> 750 [] l = <<"4">> -> 500]

\* LEVEL_MAX_WEIGHTS[level]: undefined for a key the table lacks; undefined
\* converts to NaN in every comparison and arithmetic operation made on it
LevelMaxWeightOf(level) ==
  IF level \in DOMAIN LEVEL_MAX_WEIGHTS THEN Num(LEVEL_MAX_WEIGHTS[level]) ELSE NaN

\* a level key that leaves the row out
getLevelId_withoutRow(location) == location.bay \o <<"-">> \o location.level

getLevelId(location) == location.row \o location.bay \o <<"-">> \o location.level

\* loc.currentWeight || 0
CurrentWeightOrZero(loc) ==
  IF "currentWeight" \in DOMAIN loc /\ loc.currentWeight # 0 THEN loc.currentWeight ELSE 0

RECURSIVE ReduceWeight(_, _, _)
ReduceWeight(locs, i, total) ==
  IF i > Len(locs) THEN total
  ELSE ReduceWeight(locs, i + 1, total + CurrentWeightOrZero(locs[i]))

getLevelWeight(locs) == ReduceWeight(locs, 1, 0)

\* canAcceptWeight rejecting a level weight that lands exactly on the limit
\* canAcceptWeight weighing the location alone instead of its level
canAcceptWeight_ownWeightOnly(location, w, levelLocations) ==
  IF ~location.available \/ ~location.verified THEN FALSE
  ELSE LET newLevelWeight == CurrentWeightOrZero(location) + w
           levelMaxWeight == LevelMaxWeightOf(location.level)
       IN IF Gt(Num(newLevelWeight), levelMaxWeight) THEN FALSE ELSE TRUE

canAcceptWeight_belowLimitOnly(location, w, levelLocations) ==
  IF ~location.available \/ ~location.verified THEN FALSE
  ELSE LET currentLevelWeight == getLevelWeight(levelLocations)
           newLevelWeight == currentLevelWeight + w
           levelMaxWeight == LevelMaxWeightOf(location.level)
       IN IF ~Gt(levelMaxWeight, Num(newLevelWeight)) THEN FALSE ELSE TRUE

canAcceptWeight(location, w, levelLocations) ==
  IF ~location.available \/ ~location.verified THEN FALSE
  ELSE LET currentLevelWeight == getLevelWeight(levelLocations)
           newLevelWeight == currentLevelWeight + w
           levelMaxWeight == LevelMaxWeightOf(location.level)
       IN IF Gt(Num(newLevelWeight), levelMaxWeight) THEN FALSE ELSE TRUE

\* calculateDistanceScore counting bays from 0 instead of 1
calculateDistanceScore_bayNotOffset(row, bay) ==
  LET rowScore == Mul(Sub(charCodeAt0(row), charCodeAt0(<<"A">>)), Num(100))
      bayScore == parseInt(bay)
  IN Add(rowScore, bayScore)

calculateDistanceScore(row, bay) ==
  LET rowScore == Mul(Sub(charCodeAt0(row), charCodeAt0(<<"A">>)), Num(100))
      bayScore == Sub(parseInt(bay), Num(1))
  IN Add(rowScore, bayScore)

\* calculateWeightScore without the levelPenalty term
calculateWeightScore_noLevelPenalty(w, level, levelLocations) ==
  LET levelNum == parseInt(level)
      levelMaxWeight == LevelMaxWeightOf(level)
      currentLevelWeight == getLevelWeight(levelLocations)
      newLevelWeight == Num(currentLevelWeight + w)
  IN IF Gt(newLevelWeight, levelMaxWeight) THEN MAX_SAFE_INTEGER
     ELSE LET heightPenalty == Mul(Mul(Num(w), levelNum), Num(2))
              capacityScore == MathAbs(Sub(levelMaxWeight, newLevelWeight))
          IN Add(heightPenalty, capacityScore)

\* calculateWeightScore without the capacityScore term
calculateWeightScore_noCapacityScore(w, level, levelLocations) ==
  LET levelNum == parseInt(level)
      levelMaxWeight == LevelMaxWeightOf(level)
      currentLevelWeight == getLevelWeight(levelLocations)
      newLevelWeight == Num(currentLevelWeight + w)
  IN IF Gt(newLevelWeight, levelMaxWeight) THEN MAX_SAFE_INTEGER
     ELSE LET heightPenalty == Mul(Mul(Num(w), levelNum), Num(2))
              levelUtilization == Div(newLevelWeight, levelMaxWeight)
              levelPenalty == Mul(levelUtilization, Num(1000))
          IN Add(heightPenalty, levelPenalty)

calculateWeightScore(w, level, levelLocations) ==
  LET levelNum == parseInt(level)
      levelMaxWeight == LevelMaxWeightOf(level)
      currentLevelWeight == getLevelWeight(levelLocations)
      newLevelWeight == Num(currentLevelWeight + w)
  IN IF Gt(newLevelWeight, levelMaxWeight) THEN MAX_SAFE_INTEGER
     ELSE LET heightPenalty == Mul(Mul(Num(w), levelNum), Num(2))
              capacityScore == MathAbs(Sub(levelMaxWeight, newLevelWeight))
              levelUtilization == Div(newLevelWeight, levelMaxWeight)
              levelPenalty == Mul(levelUtilization, Num(1000))
          IN Add(Add(heightPenalty, capacityScore), levelPenalty)

\* the absent result of findOptimalLocation; a returned location is named by
\* its position 1..Len in the candidate list
null == 0

\* an engine with memory: the filter also drops the location returned last
AvailableLocations_skipsLastResult(locs) ==
  SelectSeq([i \in 1..Len(locs) |-> i],
            LAMBDA i : locs[i].available /\ locs[i].verified /\ i # result)

\* locations.filter(loc => loc.available && loc.verified), as positions
AvailableLocations(locs) ==
  SelectSeq([i \in 1..Len(locs) |-> i], LAMBDA i : locs[i].available /\ locs[i].verified)

\* the reduce that groups availableLocations (positions av) by level key
LevelGroups(locs, av) ==
  LET keys == {getLevelId(locs[av[j]]) : j \in DOMAIN av}
  IN [k \in keys |-> SelectSeq(av, LAMBDA i : getLevelId(locs[i]) = k)]

\* levelGroups[levelKey] for the location at position i, as location records
LevelLocationsOf(locs, groups, i) ==
  LET g == groups[getLevelId(locs[i])]
  IN AsSeq([j \in DOMAIN g |-> locs[g[j]]])

\* availableLocations.filter(location => canAcceptWeight(...))
ValidLocations(locs, w, av, groups) ==
  SelectSeq(av, LAMBDA i : canAcceptWeight(locs[i], w, LevelLocationsOf(locs, groups, i)))

\* the score the map step gives the location at position i
ScoreOf(locs, w, groups, i) ==
  LET distanceScore == calculateDistanceScore(locs[i].row, locs[i].bay)
      weightScore == calculateWeightScore(w, locs[i].level, LevelLocationsOf(locs, groups, i))
  IN Add(distanceScore, weightScore)

\* validLocations.map(...).filter(scored => scored.score !== Number.MAX_SAFE_INTEGER)
ScoredLocations(locs, w, valid, groups) ==
  LET scored == AsSeq([j \in DOMAIN valid |->
                   [location |-> valid[j], score |-> ScoreOf(locs, w, groups, valid[j])]])
  IN SelectSeq(scored, LAMBDA s : ~StrictEq(s.score, MAX_SAFE_INTEGER))

\* (a, b) => a.score - b.score, as Array.prototype.sort reads it: its sign, NaN as 0
SortCompare(a, b) == Sign(Sub(a.score, b.score))

\* ECMAScript's "consistent comparison function" for the elements of s. Real
\* subtraction orders NaN-free scores consistently, so only a list holding a NaN
\* score needs the conditions evaluated (c is the matrix of comparison signs)
ConsistentComparator(s) ==
  \/ \A i \in DOMAIN s : ~s[i].score.nan
  \/ LET c == AsSeq([i \in DOMAIN s |-> AsSeq([j \in DOMAIN s |-> SortCompare(s[i], s[j])])])
     IN \A i, j, k \in DOMAIN s :
          /\ c[i][i] = 0
          /\ c[i][j] = -c[j][i]
          /\ (c[i][j] = 0 /\ c[j][k] = 0 => c[i][k] = 0)
          /\ (c[i][j] < 0 /\ c[j][k] < 0 => c[i][k] < 0)
          /\ (c[i][j] < 0 /\ c[j][k] = 0 => c[i][k] < 0)
          /\ (c[i][j] = 0 /\ c[j][k] < 0 => c[i][k] < 0)

RECURSIVE InsertSorted(_, _, _)
\* x goes behind every element it does not precede (a stable insertion)
InsertSorted(x, sorted, p) ==
  IF p > Len(sorted) THEN Append(sorted, x)
  ELSE IF SortCompare(x, sorted[p]) < 0
       THEN SubSeq(sorted, 1, p - 1) \o <<x>> \o SubSeq(sorted, p, Len(sorted))
       ELSE InsertSorted(x, sorted, p + 1)

RECURSIVE StableSort(_, _, _)
StableSort(s, i, sorted) ==
  IF i > Len(s) THEN sorted
  ELSE StableSort(s, i + 1, InsertSorted(s[i], sorted, 1))

\* scoredLocations.sort(...)[0]: the sort is stable (ES2019) under a consistent
\* comparator; under an inconsistent one the order is implementation-defined and
\* any element may come first
SortedFirst(s) ==
  IF ConsistentComparator(s) THEN {StableSort(s, 1, <<>>)[1]} ELSE {s[i] : i \in DOMAIN s}

\* findOptimalLocation ranking every location that fits under its level's cap,
\* whatever its available and verified flags
findOptimalLocation_noFlagCheck(locs, w) ==
  LET everyLocation == AsSeq([i \in 1..Len(locs) |-> i])
      levelGroups == LevelGroups(locs, everyLocation)
      valid == SelectSeq(everyLocation,
                 LAMBDA i : ~Gt(Num(getLevelWeight(LevelLocationsOf(locs, levelGroups, i)) + w),
                                LevelMaxWeightOf(locs[i].level)))
      scoredLocations == ScoredLocations(locs, w, valid, levelGroups)
  IN IF Len(valid) = 0 \/ Len(scoredLocations) = 0
       THEN [throws |-> FALSE, validLocations |-> valid, returns |-> {null}]
     ELSE [throws |-> FALSE, validLocations |-> valid,
           returns |-> {first.location : first \in SortedFirst(scoredLocations)}]

\* a levelGroups[levelKey] lookup that yields undefined for one of the positions:
\* reading the weights of undefined raises a TypeError
LookupFails(locs, groups, positions) ==
  \E j \in DOMAIN positions : getLevelId(locs[positions[j]]) \notin DOMAIN groups

\* one call findOptimalLocation(locations, weight): whether it throws, its local
\* validLocations at the return, and the values it can return
findOptimalLocation(locs, w) ==
  LET availableLocations == AvailableLocations(locs)
      levelGroups == LevelGroups(locs, availableLocations)
      valid == ValidLocations(locs, w, availableLocations, levelGroups)
      scoredLocations == ScoredLocations(locs, w, valid, levelGroups)
  IN IF Len(availableLocations) = 0
       THEN [throws |-> FALSE, validLocations |-> <<>>, returns |-> {null}]
     ELSE IF LookupFails(locs, levelGroups, availableLocations)
       THEN [throws |-> TRUE, validLocations |-> <<>>, returns |-> {}]
     ELSE IF Len(valid) = 0
       THEN [throws |-> FALSE, validLocations |-> valid, returns |-> {null}]
     ELSE IF Len(scoredLocations) = 0
       THEN [throws |-> FALSE, validLocations |-> valid, returns |-> {null}]
     ELSE [throws |-> FALSE, validLocations |-> valid,
           returns |-> {first.location : first \in SortedFirst(scoredLocations)}]

\* findOptimalLocation whose filter step removes the unusable locations from
\* the caller's array instead of building a new one
LocationsAfter_filtersInPlace(locs, w) ==
  SelectSeq(locs, LAMBDA l : l.available /\ l.verified)

\* the caller's array after findOptimalLocation(locs, w): filter, reduce and map
\* build new arrays, the pushes go to the arrays of levelGroups, and sort
\* reorders scoredLocations, itself the result of map and filter; no statement
\* writes to locs or to a field of one of its elements
LocationsAfter(locs, w) == locs

----------------------------------------------------------------------------
(* Inputs of the engine *)

Rows == {<<"A">>, <<"B">>}

Bays == {<<"0", "1">>, <<"0", "2">>}

\* two configured tiers and one tier identifier the table lacks
Levels == {<<"0">>, <<"1">>, <<"5">>}

\* (currentWeight, available, verified) of a slot
SlotStates ==
  { <<0, TRUE, TRUE>>, <<1500, TRUE, TRUE>>, <<1500, FALSE, TRUE>>, <<0, TRUE, FALSE>> }

\* bay A01 in every tier, and ground-tier slots one bay and one row further out
Coordinates ==
  { <<r, b, l>> \in Rows \X Bays \X Levels :
      \/ r = <<"A">> /\ b = <<"0", "1">>
      \/ l = <<"0">> /\ (r = <<"A">> \/ b = <<"0", "1">>) }

\* the slots a candidate list is drawn from: unavailable and unverified slots
\* are enumerated in the configured tiers of bay A01
LocationPool ==
  { [row |-> c[1], bay |-> c[2], level |-> c[3],
     currentWeight |-> s[1], available |-> s[2], verified |-> s[3]] :
    c \in Coordinates,
    s \in SlotStates } \
  { l \in [row : Rows, bay : Bays, level : Levels, currentWeight : {0, 1500},
           available : BOOLEAN, verified : BOOLEAN] :
      /\ ~(l.available /\ l.verified)
      /\ ~(l.row = <<"A">> /\ l.bay = <<"0", "1">> /\ l.level \in DOMAIN LEVEL_MAX_WEIGHTS) }

Weights == {0, 1, 100, 500}

SeqsUpTo(S, n) == UNION {[1..m -> S] : m \in 0..n}

\* the location argument of a canAcceptWeight call that is not made
NoLocation == [available |-> FALSE, verified |-> FALSE]

\* the record of calculateWeightScore calls that are not made
NoScore == [level |-> <<>>, lighter |-> 0, heavier |-> 0, scores |-> <<>>]

\* the outcome of a second call that has not been made
NoCall == [called |-> FALSE, threw |-> FALSE, result |-> null]

\* the workflow's state while a single engine call is examined
\* no persistence call is under examination
NoRequest == [op |-> "none"]

NoResponse == [done |-> FALSE]

\* the picking page of a second client, as it is when opened
NoPeer ==
  [suggestedLocations |-> <<>>, selectedAction |-> null,
   scanDialog |-> [open |-> FALSE, step |-> "item"]]

StoreIdle == request = NoRequest /\ response = NoResponse /\ peer = NoPeer

FlowIdle ==
  /\ StoreIdle
  /\ dbLocations = <<>>
  /\ dbItems = <<>>
  /\ dbActions = <<>>
  /\ allocationTasks = {}
  /\ suggestedLocations = <<>>
  /\ selectedAction = null
  /\ scanDialog = [open |-> FALSE, step |-> "item"]

----------------------------------------------------------------------------
(* Specification of one findOptimalLocation call *)

Init ==
  /\ locations \in SeqsUpTo(LocationPool, MaxLocations)
  /\ weight = 0
  /\ pc = "ready"
  /\ validLocations = <<>>
  /\ result = null
  /\ probe = NoLocation
  /\ accepted = FALSE
  /\ sortImpl = 1
  /\ second = NoCall
  /\ scoreCall = NoScore
  /\ grouping = <<>>
  /\ FlowIdle

\* findOptimalLocation(locations, w) is called once and returns or throws
FindOptimalLocation ==
  /\ pc = "ready"
  /\ \E w \in Weights :
       /\ weight' = w
       /\ LET call == findOptimalLocation(locations, w)
          IN /\ validLocations' = call.validLocations
             /\ IF call.throws
                  THEN pc' = "threw" /\ result' = null
                  ELSE pc' = "returned" /\ \E r \in call.returns : result' = r
       /\ locations' = LocationsAfter(locations, w)
  /\ UNCHANGED <<probe, accepted, sortImpl, second, scoreCall, grouping>>
  /\ UNCHANGED <<flowVars, storeVars>>

Next == FindOptimalLocation

Spec == Init /\ [][Next]_vars

----------------------------------------------------------------------------
(* Specification of one findOptimalLocation call on a list, one longer, of *)
(* empty locations of bay 01                                               *)

SiblingPool == {l \in LocationPool : l.currentWeight = 0 /\ l.bay = <<"0", "1">>}

InitSiblings ==
  /\ locations \in SeqsUpTo(SiblingPool, MaxLocations + 1)
  /\ weight = 0
  /\ pc = "ready"
  /\ validLocations = <<>>
  /\ result = null
  /\ probe = NoLocation
  /\ accepted = FALSE
  /\ sortImpl = 1
  /\ second = NoCall
  /\ scoreCall = NoScore
  /\ grouping = <<>>
  /\ FlowIdle

SpecSiblings == InitSiblings /\ [][Next]_vars

----------------------------------------------------------------------------
(* Specification of one canAcceptWeight call: a location, a weight and the  *)
(* list of the locations of its level (held in the variable locations)     *)

LevelMates(location) == {l \in LocationPool : getLevelId(l) = getLevelId(location)}

InitAccept ==
  /\ probe \in LocationPool
  /\ sortImpl = 1
  /\ second = NoCall
  /\ scoreCall = NoScore
  /\ grouping = <<>>
  /\ locations \in SeqsUpTo(LevelMates(probe), MaxLocations)
  /\ weight = 0
  /\ pc = "ready"
  /\ validLocations = <<>>
  /\ result = null
  /\ accepted = FALSE
  /\ FlowIdle

\* canAcceptWeight(probe, w, locations) is called once
CanAcceptWeight ==
  /\ pc = "ready"
  /\ \E w \in Weights :
       /\ weight' = w
       /\ accepted' = canAcceptWeight(probe, w, locations)
  /\ pc' = "checked"
  /\ UNCHANGED <<locations, probe, validLocations, result, sortImpl, second, scoreCall,
                 grouping>>
  /\ UNCHANGED <<flowVars, storeVars>>

NextAccept == CanAcceptWeight

SpecAccept == InitAccept /\ [][NextAccept]_vars

----------------------------------------------------------------------------
(* Specification of two findOptimalLocation calls in a row with the same    *)
(* arguments, in one build of the program                                  *)

\* scoredLocations[0] in the build impl: where the sort's order is
\* implementation-defined the build fixes which of the possible elements comes
\* first, the same way on every call
ReturnedBy(returns, impl) ==
  LET n == Cardinality(returns)
      k == ((impl - 1) % n) + 1
  IN CHOOSE r \in returns : Cardinality({x \in returns : x <= r}) = k

InitTwice ==
  /\ locations \in SeqsUpTo(LocationPool, MaxLocations)
  /\ weight = 0
  /\ pc = "ready"
  /\ validLocations = <<>>
  /\ result = null
  /\ probe = NoLocation
  /\ accepted = FALSE
  /\ sortImpl = 1
  /\ second = NoCall
  /\ scoreCall = NoScore
  /\ grouping = <<>>
  /\ FlowIdle

\* findOptimalLocation(locations, w) is called; a call whose sort order is
\* implementation-defined shows which order the build produces
FirstCall ==
  /\ pc = "ready"
  /\ \E w \in Weights :
       /\ weight' = w
       /\ LET call == findOptimalLocation(locations, w)
          IN /\ validLocations' = call.validLocations
             /\ IF call.throws
                  THEN pc' = "threw" /\ result' = null /\ sortImpl' = sortImpl
                  ELSE /\ pc' = "returned"
                       /\ \E impl \in IF Cardinality(call.returns) > 1
                                         THEN 1..MaxLocations ELSE {sortImpl} :
                            /\ result' = ReturnedBy(call.returns, impl)
                            /\ sortImpl' = impl
       /\ locations' = LocationsAfter(locations, w)
  /\ UNCHANGED <<probe, accepted, second, scoreCall, grouping>>
  /\ UNCHANGED <<flowVars, storeVars>>

\* findOptimalLocation(locations, weight) is called again with the array and
\* the weight of the first call
SecondCall ==
  /\ pc \in {"returned", "threw"}
  /\ ~second.called
  /\ LET call == findOptimalLocation(locations, weight)
     IN second' = [called |-> TRUE, threw |-> call.throws,
                   result |-> IF call.throws THEN null
                              ELSE ReturnedBy(call.returns, sortImpl)]
  /\ locations' = LocationsAfter(locations, weight)
  /\ UNCHANGED <<weight, pc, validLocations, result, probe, accepted, sortImpl,
                 scoreCall, grouping>>
  /\ UNCHANGED <<flowVars, storeVars>>

NextTwice == FirstCall \/ SecondCall

SpecTwice == InitTwice /\ [][NextTwice]_vars

----------------------------------------------------------------------------
(* Specification of calculateWeightScore called for one weight and one tier *)
(* on a lighter and on a heavier level                                     *)

\* the tiers of the capacity table
ScoreLevels == DOMAIN LEVEL_MAX_WEIGHTS

\* level weights before the placement
LevelWeights == {0, 100, 250, 400, 500, 1000, 1500}

InitScore ==
  /\ locations = <<>>
  /\ weight = 0
  /\ pc = "ready"
  /\ validLocations = <<>>
  /\ result = null
  /\ probe = NoLocation
  /\ accepted = FALSE
  /\ sortImpl = 1
  /\ second = NoCall
  /\ \E level \in ScoreLevels, lighter, heavier \in LevelWeights :
       /\ lighter < heavier
       /\ scoreCall = [level |-> level, lighter |-> lighter, heavier |-> heavier,
                         scores |-> <<>>]
  /\ grouping = <<>>
  /\ FlowIdle

\* calculateWeightScore(w, level, levelLocations) is called for a level holding
\* the lighter weight and for a level holding the heavier weight
CalculateWeightScore ==
  /\ pc = "ready"
  /\ \E w \in Weights :
       /\ weight' = w
       /\ scoreCall' =
            [scoreCall EXCEPT !.scores =
               << calculateWeightScore(w, scoreCall.level,
                                       <<[currentWeight |-> scoreCall.lighter]>>),
                  calculateWeightScore(w, scoreCall.level,
                                       <<[currentWeight |-> scoreCall.heavier]>>) >>]
  /\ pc' = "scored"
  /\ UNCHANGED <<locations, validLocations, result, probe, accepted, sortImpl, second,
                 grouping>>
  /\ UNCHANGED <<flowVars, storeVars>>

NextScore == CalculateWeightScore

SpecScore == InitScore /\ [][NextScore]_vars

----------------------------------------------------------------------------
(* Specification of the level grouping: the reduce of findOptimalLocation    *)
(* and getLevelWeight of each group it builds                              *)

\* coordinates with single-letter rows and numeric bay strings whose level
\* keys share prefixes and suffixes
GroupCoordinates ==
  { <<<<"A">>, <<"1">>, <<"0">>>>, <<<<"A">>, <<"1">>, <<"1">>>>,
    <<<<"A">>, <<"1", "1">>, <<"0">>>>, <<<<"A">>, <<"0", "1">>, <<"0">>>>,
    <<<<"B">>, <<"1">>, <<"0">>>> }

\* locations holding a weight, and one whose currentWeight is missing
GroupPool ==
  { [row |-> c[1], bay |-> c[2], level |-> c[3],
     currentWeight |-> 500, available |-> a, verified |-> TRUE] :
    c \in GroupCoordinates, a \in BOOLEAN }
  \cup
  { [row |-> c[1], bay |-> c[2], level |-> c[3], available |-> TRUE, verified |-> TRUE] :
    c \in GroupCoordinates }

InitGroup ==
  /\ locations \in SeqsUpTo(GroupPool, MaxLocations)
  /\ weight = 0
  /\ pc = "ready"
  /\ validLocations = <<>>
  /\ result = null
  /\ probe = NoLocation
  /\ accepted = FALSE
  /\ sortImpl = 1
  /\ second = NoCall
  /\ scoreCall = NoScore
  /\ grouping = <<>>
  /\ FlowIdle

\* availableLocations is grouped by getLevelId and every group is weighed
GroupByLevel ==
  /\ pc = "ready"
  /\ LET groups == LevelGroups(locations, AvailableLocations(locations))
     IN grouping' =
          [k \in DOMAIN groups |->
             [members |-> groups[k],
              weight |-> getLevelWeight(AsSeq([j \in DOMAIN groups[k] |->
                                                 locations[groups[k][j]]]))]]
  /\ pc' = "grouped"
  /\ UNCHANGED <<locations, weight, validLocations, result, probe, accepted, sortImpl,
                 second, scoreCall>>
  /\ UNCHANGED <<flowVars, storeVars>>

NextGroup == GroupByLevel

SpecGroup == InitGroup /\ [][NextGroup]_vars

----------------------------------------------------------------------------
(* The placement workflow: goods-in creates an item and an 'in' action, the *)
(* picking page suggests a location for it and commits the placement or    *)
(* pick when the item and the location have been scanned.                  *)

\* a location field that holds null or undefined; a scanned text is a string
\* and never strictly equals it: it is written as a text outside ScanCodes
NoCode == "(null)"

\* a document as addLocation stores it
addLocation(code, row, bay, level) ==
  [code |-> code, row |-> row, bay |-> bay, level |-> level,
   currentWeight |-> 0, available |-> TRUE, verified |-> TRUE]

\* the warehouse the workflow starts from: every location empty
Warehouse ==
  << addLocation("A01-0-1", <<"A">>, <<"0", "1">>, <<"0">>),
     addLocation("A01-0-2", <<"A">>, <<"0", "1">>, <<"0">>),
     addLocation("A01-1-1", <<"A">>, <<"0", "1">>, <<"1">>),
     addLocation("A01-1-2", <<"A">>, <<"0", "1">>, <<"1">>) >>

\* a warehouse of one location on the ground level and one on the top level,
\* which is too weak for the heavier item
ScanWarehouse ==
  << addLocation("A01-0-1", <<"A">>, <<"0", "1">>, <<"0">>),
     addLocation("A01-4-1", <<"A">>, <<"0", "1">>, <<"4">>) >>

\* weights entered on the goods-in form: two of the heavier exceed the maximum
\* of every tier
ItemWeights == {500, 1500}

\* generateItemCode(category, Date.now()) of the n-th item
SystemCodes == <<"SYS1", "SYS2", "SYS3", "SYS4">>

\* getAvailableLocations(requiredWeight) on the collection db
getAvailableLocations(db, requiredWeight) ==
  LET locs == SelectSeq(db, LAMBDA l : l.available /\ l.verified)
      levelLocations(levelId) == SelectSeq(locs, LAMBDA l : getLevelId(l) = levelId)
  IN SelectSeq(locs, LAMBDA location :
       LET currentLevelWeight == getLevelWeight(levelLocations(getLevelId(location)))
           levelMaxWeight == LevelMaxWeightOf(location.level)
       IN Le(Num(currentLevelWeight + requiredWeight), levelMaxWeight))

\* the codes `optimal.code` can take after
\*   availableLocations = await getAvailableLocations(weight);
\*   optimal = findOptimalLocation(availableLocations, weight)
\* NoCode when optimal is null or the call throws (the error is caught)
OptimalCodes(db, w) ==
  LET availableLocations == getAvailableLocations(db, w)
      call == findOptimalLocation(availableLocations, w)
  IN IF call.throws THEN {NoCode}
     ELSE {IF r = null THEN NoCode ELSE availableLocations[r].code : r \in call.returns}

\* setSuggestedLocations(prev => ({...prev, [id]: code})) when optimal is not null
SetSuggested(prev, id, code) ==
  IF code = NoCode THEN prev
  ELSE [a \in DOMAIN prev \cup {id} |-> IF a = id THEN code ELSE prev[a]]

\* suggestedLocations[id] with the first location's label for a missing entry
SuggestedFor_firstLocation(id) ==
  IF id \in DOMAIN suggestedLocations THEN suggestedLocations[id] ELSE dbLocations[1].code

\* suggestedLocations[id]
SuggestedFor(id) ==
  IF id \in DOMAIN suggestedLocations THEN suggestedLocations[id] ELSE NoCode

\* getLocationByCode(code): the position of the first match, or null
getLocationByCode(db, code) ==
  LET matches == {i \in DOMAIN db : db[i].code = code}
  IN IF matches = {} THEN null ELSE CHOOSE i \in matches : \A j \in matches : i <= j

\* updateDoc(ref, data): the fields of data replace or extend those of the document
updateDoc(doc, data) ==
  [f \in DOMAIN doc \cup DOMAIN data |-> IF f \in DOMAIN data THEN data[f] ELSE doc[f]]

\* updateLocation(id, data): updateDoc with {...data, available: data.currentWeight
\* ? data.currentWeight === 0 : true}
updateLocation(db, id, data) ==
  LET available == IF "currentWeight" \in DOMAIN data /\ data.currentWeight # 0
                     THEN data.currentWeight = 0
                     ELSE TRUE
  IN [db EXCEPT ![id] = updateDoc(@, updateDoc(data, [available |-> available]))]

\* the pick's subtraction without the clamp
MathMax0_noClamp(a) == a

\* Math.max(0, a)
MathMax0(a) == IF a < 0 THEN 0 ELSE a

\* the actions of a snapshot of subscribeToActions
ActionList(actions) ==
  {a \in DOMAIN actions : actions[a].status \in {"pending", "in-progress"}}

\* the async callbacks a snapshot starts: one per listed 'in' action; the
\* guard !suggestedLocations[action.id] reads the {} captured when the effect
\* was set up and always passes
SnapshotTasks(actions) ==
  {a \in ActionList(actions) : actions[a].actionType = "in"}

\* no engine call is under examination while the workflow runs
EngineIdle ==
  /\ locations = <<>>
  /\ weight = 0
  /\ pc = "idle"
  /\ validLocations = <<>>
  /\ result = null
  /\ probe = NoLocation
  /\ accepted = FALSE
  /\ sortImpl = 1
  /\ second = NoCall
  /\ scoreCall = NoScore
  /\ grouping = <<>>

InitFlow ==
  /\ EngineIdle
  /\ StoreIdle
  /\ dbLocations = Warehouse
  /\ dbItems = <<>>
  /\ dbActions = <<>>
  /\ allocationTasks = {}
  /\ suggestedLocations = <<>>
  /\ selectedAction = null
  /\ scanDialog = [open |-> FALSE, step |-> "item"]

\* goods-in handleSubmit: addItem with status 'pending', then createGoodsInAction;
\* the location it computes in between is only displayed on the goods-in page.
\* The new action reaches the picking page as a snapshot.
GoodsIn ==
  /\ Len(dbItems) < MaxItems
  /\ Len(dbActions) < MaxActions
  /\ \E w \in ItemWeights :
       LET itemId == Len(dbItems) + 1
           systemCode == SystemCodes[itemId]
           actions == Append(dbActions,
                        [itemId |-> itemId, systemCode |-> systemCode, weight |-> w,
                         location |-> NoCode, actionType |-> "in", status |-> "pending"])
       IN /\ dbItems' = Append(dbItems, [systemCode |-> systemCode, weight |-> w,
                                         status |-> "pending", location |-> NoCode])
          /\ dbActions' = actions
          /\ allocationTasks' = allocationTasks \cup SnapshotTasks(actions)
  /\ UNCHANGED <<dbLocations, suggestedLocations, selectedAction, scanDialog>>
  /\ UNCHANGED <<engineVars, storeVars>>

\* the async callback a snapshot started for one 'in' action runs: it queries the
\* available locations, asks the engine and records the suggestion
Suggest ==
  /\ \E a \in allocationTasks :
       /\ \E code \in OptimalCodes(dbLocations, dbActions[a].weight) :
            suggestedLocations' = SetSuggested(suggestedLocations, a, code)
       /\ allocationTasks' = allocationTasks \ {a}
  /\ UNCHANGED <<dbLocations, dbItems, dbActions, selectedAction, scanDialog>>
  /\ UNCHANGED <<engineVars, storeVars>>

\* handleAction(action): a listed action is clicked while the scan dialog, which
\* is modal, is closed
HandleAction ==
  /\ ~scanDialog.open
  /\ \E a \in ActionList(dbActions) :
       /\ selectedAction' = a
       /\ IF dbActions[a].actionType = "in" /\ SuggestedFor(a) = NoCode
            THEN \E code \in OptimalCodes(dbLocations, dbActions[a].weight) :
                   suggestedLocations' = SetSuggested(suggestedLocations, a, code)
            ELSE UNCHANGED suggestedLocations
  /\ scanDialog' = [open |-> TRUE, step |-> "item"]
  /\ UNCHANGED <<dbLocations, dbItems, dbActions, allocationTasks>>
  /\ UNCHANGED <<engineVars, storeVars>>

\* the dialog's onOpenChange(false)
CloseDialog ==
  /\ scanDialog.open
  /\ scanDialog' = [open |-> FALSE, step |-> "item"]
  /\ UNCHANGED <<dbLocations, dbItems, dbActions, allocationTasks, suggestedLocations,
                 selectedAction>>
  /\ UNCHANGED <<engineVars, storeVars>>

\* the texts a scanner can deliver: location labels, item labels, anything
\* else, and the empty submission
ScanCodes ==
  {dbLocations[i].code : i \in DOMAIN dbLocations}
    \cup {dbItems[i].systemCode : i \in DOMAIN dbItems} \cup {"X", ""}

\* the location the selected action is to be scanned at
ExpectedLocation ==
  IF dbActions[selectedAction].actionType = "in"
    THEN SuggestedFor(selectedAction)
    ELSE dbActions[selectedAction].location

\* handleScan in step 'item', any text taken for the item's label
ScanItem_anyCode(scannedCode) ==
  /\ scanDialog.step = "item"
  /\ scanDialog' = [scanDialog EXCEPT !.step = "location"]
  /\ UNCHANGED <<dbLocations, dbItems, dbActions, allocationTasks, suggestedLocations,
                 selectedAction>>

\* handleScan in step 'item'
ScanItem(scannedCode) ==
  /\ scanDialog.step = "item"
  /\ IF scannedCode # dbActions[selectedAction].systemCode
       THEN UNCHANGED scanDialog
       ELSE scanDialog' = [scanDialog EXCEPT !.step = "location"]
  /\ UNCHANGED <<dbLocations, dbItems, dbActions, allocationTasks, suggestedLocations,
                 selectedAction>>

\* handleScan in step 'location': updateLocation, updateItem, updateAction, then
\* the dialog is reset; the completed action leaves the list as a snapshot
ScanLocation(scannedCode) ==
  /\ scanDialog.step = "location"
  /\ LET action == dbActions[selectedAction]
         location == getLocationByCode(dbLocations, scannedCode)
     IN IF scannedCode # ExpectedLocation \/ location = null
          THEN UNCHANGED flowVars
          ELSE LET currentWeight == CurrentWeightOrZero(dbLocations[location])
                   actions == [dbActions EXCEPT ![selectedAction] =
                                 [@ EXCEPT !.status = "completed",
                                           !.location = scannedCode]]
               IN /\ dbLocations' = updateLocation(dbLocations, location,
                                      [currentWeight |->
                                         IF action.actionType = "in"
                                           THEN currentWeight + action.weight
                                           ELSE MathMax0(currentWeight - action.weight),
                                       status |-> action.actionType = "in"])
                  /\ dbItems' = [dbItems EXCEPT ![action.itemId] =
                                   [@ EXCEPT !.status = IF action.actionType = "out"
                                                          THEN "removed" ELSE "placed",
                                             !.location = IF action.actionType = "out"
                                                            THEN NoCode ELSE scannedCode]]
                  /\ dbActions' = actions
                  /\ allocationTasks' = allocationTasks \cup SnapshotTasks(actions)
                  /\ scanDialog' = [open |-> FALSE, step |-> "item"]
                  /\ selectedAction' = null
                  /\ UNCHANGED suggestedLocations

\* handleScan: the form of the open scan dialog is submitted
HandleScan ==
  /\ scanDialog.open
  /\ selectedAction # null
  /\ \E scannedCode \in ScanCodes :
       ScanItem(scannedCode) \/ ScanLocation(scannedCode)
  /\ UNCHANGED <<engineVars, storeVars>>

\* the department dialog's handleSubmit: createPickAction for a placed item
CreatePick ==
  /\ Cardinality({a \in DOMAIN dbActions : dbActions[a].actionType = "out"}) < MaxPicks
  /\ Len(dbActions) < MaxActions
  /\ \E i \in DOMAIN dbItems :
       /\ dbItems[i].status = "placed"
       /\ LET actions == Append(dbActions,
                           [itemId |-> i, systemCode |-> dbItems[i].systemCode,
                            weight |-> dbItems[i].weight, location |-> dbItems[i].location,
                            actionType |-> "out", status |-> "pending"])
          IN /\ dbActions' = actions
             /\ allocationTasks' = allocationTasks \cup SnapshotTasks(actions)
  /\ UNCHANGED <<dbLocations, dbItems, suggestedLocations, selectedAction, scanDialog>>
  /\ UNCHANGED <<engineVars, storeVars>>

NextFlow ==
  \/ GoodsIn
  \/ Suggest
  \/ HandleAction
  \/ CloseDialog
  \/ HandleScan
  \/ CreatePick

SpecFlow == InitFlow /\ [][NextFlow]_vars

----------------------------------------------------------------------------
(* Specification of the workflow with writes that can fail *)

InitFaults ==
  /\ EngineIdle
  /\ request = NoRequest
  /\ response = [done |-> FALSE, faults |-> 0]
  /\ peer = NoPeer
  /\ dbLocations = ScanWarehouse
  /\ dbItems = <<>>
  /\ dbActions = <<>>
  /\ allocationTasks = {}
  /\ suggestedLocations = <<>>
  /\ selectedAction = null
  /\ scanDialog = [open |-> FALSE, step |-> "item"]

\* the awaited writes of the scan commit, in the order they are made
CommitWrites == <<"updateLocation", "updateItem", "updateAction">>

\* handleScan in step 'location' with the right text, where the write `failed`
\* rejects: the writes before it are made, the catch block reports the error,
\* and the dialog and the selection stay as they are
ScanLocationFailing(scannedCode, failed) ==
  /\ scanDialog.step = "location"
  /\ scannedCode = ExpectedLocation
  /\ getLocationByCode(dbLocations, scannedCode) # null
  /\ LET action == dbActions[selectedAction]
         location == getLocationByCode(dbLocations, scannedCode)
         currentWeight == CurrentWeightOrZero(dbLocations[location])
     IN /\ dbLocations' =
             IF failed > 1
               THEN updateLocation(dbLocations, location,
                      [currentWeight |->
                         IF action.actionType = "in"
                           THEN currentWeight + action.weight
                           ELSE MathMax0(currentWeight - action.weight),
                       status |-> action.actionType = "in"])
               ELSE dbLocations
        /\ dbItems' =
             IF failed > 2
               THEN [dbItems EXCEPT ![action.itemId] =
                       [@ EXCEPT !.status = IF action.actionType = "out"
                                              THEN "removed" ELSE "placed",
                                 !.location = IF action.actionType = "out"
                                                THEN NoCode ELSE scannedCode]]
               ELSE dbItems
  /\ UNCHANGED <<dbActions, allocationTasks, suggestedLocations, selectedAction,
                 scanDialog>>

\* handleScan: one of the commit's writes fails
HandleScanFailing ==
  /\ scanDialog.open
  /\ selectedAction # null
  /\ response.faults < MaxFaults
  /\ \E scannedCode \in ScanCodes, failed \in DOMAIN CommitWrites :
       /\ ScanLocationFailing(scannedCode, failed)
       /\ response' = [done |-> TRUE, faults |-> response.faults + 1,
                       threw |-> CommitWrites[failed]]
  /\ UNCHANGED <<request, peer>>
  /\ UNCHANGED engineVars

NextFaults ==
  \/ GoodsIn
  \/ Suggest
  \/ HandleAction
  \/ CloseDialog
  \/ HandleScan
  \/ HandleScanFailing
  \/ CreatePick

SpecFaults == InitFaults /\ [][NextFaults]_vars

----------------------------------------------------------------------------
(* Specification of the workflow with two clients on the picking page.  Each *)
(* handler runs as one step.                                                *)

InitClients ==
  /\ EngineIdle
  /\ StoreIdle
  /\ dbLocations = ScanWarehouse
  /\ dbItems = <<>>
  /\ dbActions = <<>>
  /\ allocationTasks = {}
  /\ suggestedLocations = <<>>
  /\ selectedAction = null
  /\ scanDialog = [open |-> FALSE, step |-> "item"]

\* suggestedLocations[id] on the second client's page
PeerSuggestedFor(id) ==
  IF id \in DOMAIN peer.suggestedLocations THEN peer.suggestedLocations[id] ELSE NoCode

\* the location the second client's selected action is to be scanned at
PeerExpectedLocation ==
  IF dbActions[peer.selectedAction].actionType = "in"
    THEN PeerSuggestedFor(peer.selectedAction)
    ELSE dbActions[peer.selectedAction].location

\* handleAction(action) on the second client's page
PeerHandleAction ==
  /\ ~peer.scanDialog.open
  /\ \E a \in ActionList(dbActions) :
       \E code \in IF dbActions[a].actionType = "in" /\ PeerSuggestedFor(a) = NoCode
                     THEN OptimalCodes(dbLocations, dbActions[a].weight)
                     ELSE {NoCode} :
         peer' = [suggestedLocations |-> SetSuggested(peer.suggestedLocations, a, code),
                  selectedAction |-> a,
                  scanDialog |-> [open |-> TRUE, step |-> "item"]]
  /\ UNCHANGED <<request, response>>
  /\ UNCHANGED flowVars
  /\ UNCHANGED engineVars

\* handleScan on the second client's page, step 'item'
PeerScanItem(scannedCode) ==
  /\ peer.scanDialog.step = "item"
  /\ IF scannedCode # dbActions[peer.selectedAction].systemCode
       THEN UNCHANGED peer
       ELSE peer' = [peer EXCEPT !.scanDialog.step = "location"]
  /\ UNCHANGED flowVars

\* handleScan on the second client's page, step 'location'; selectedAction is
\* the action as it was when it was clicked, whatever its stored status is now
PeerScanLocation(scannedCode) ==
  /\ peer.scanDialog.step = "location"
  /\ LET action == dbActions[peer.selectedAction]
         location == getLocationByCode(dbLocations, scannedCode)
     IN IF scannedCode # PeerExpectedLocation \/ location = null
          THEN UNCHANGED peer /\ UNCHANGED flowVars
          ELSE LET currentWeight == CurrentWeightOrZero(dbLocations[location])
                   actions == [dbActions EXCEPT ![peer.selectedAction] =
                                 [@ EXCEPT !.status = "completed",
                                           !.location = scannedCode]]
               IN /\ dbLocations' = updateLocation(dbLocations, location,
                                      [currentWeight |->
                                         IF action.actionType = "in"
                                           THEN currentWeight + action.weight
                                           ELSE MathMax0(currentWeight - action.weight),
                                       status |-> action.actionType = "in"])
                  /\ dbItems' = [dbItems EXCEPT ![action.itemId] =
                                   [@ EXCEPT !.status = IF action.actionType = "out"
                                                          THEN "removed" ELSE "placed",
                                             !.location = IF action.actionType = "out"
                                                            THEN NoCode ELSE scannedCode]]
                  /\ dbActions' = actions
                  /\ allocationTasks' = allocationTasks \cup SnapshotTasks(actions)
                  /\ peer' = [peer EXCEPT !.scanDialog = [open |-> FALSE, step |-> "item"],
                                          !.selectedAction = null]
                  /\ UNCHANGED <<suggestedLocations, selectedAction, scanDialog>>

\* handleScan on the second client's page
PeerHandleScan ==
  /\ peer.scanDialog.open
  /\ peer.selectedAction # null
  /\ \E scannedCode \in ScanCodes :
       PeerScanItem(scannedCode) \/ PeerScanLocation(scannedCode)
  /\ UNCHANGED <<request, response>>
  /\ UNCHANGED engineVars

NextClients ==
  \/ GoodsIn
  \/ Suggest
  \/ HandleAction
  \/ CloseDialog
  \/ HandleScan
  \/ CreatePick
  \/ PeerHandleAction
  \/ PeerHandleScan

SpecClients == InitClients /\ [][NextClients]_vars

----------------------------------------------------------------------------
(* Specification of the workflow with the scanned text on record *)

InitScan ==
  /\ EngineIdle
  /\ StoreIdle
  /\ dbLocations = ScanWarehouse
  /\ dbItems = <<>>
  /\ dbActions = <<>>
  /\ allocationTasks = {}
  /\ suggestedLocations = <<>>
  /\ selectedAction = null
  /\ scanDialog = [open |-> FALSE, step |-> "item"]

\* handleScan, the submitted text kept in request
HandleScanRecorded ==
  /\ scanDialog.open
  /\ selectedAction # null
  /\ \E scannedCode \in ScanCodes :
       /\ ScanItem(scannedCode) \/ ScanLocation(scannedCode)
       /\ request' = [op |-> "handleScan", scannedCode |-> scannedCode]
  /\ UNCHANGED <<response, peer>>
  /\ UNCHANGED engineVars

NextScan ==
  \/ GoodsIn
  \/ Suggest
  \/ HandleAction
  \/ CloseDialog
  \/ HandleScanRecorded
  \/ CreatePick

SpecScan == InitScan /\ [][NextScan]_vars

----------------------------------------------------------------------------
(* Specification of updateLocation calls on one stored location *)

\* the Partial<Location> payloads of the calls: the scan commit's
\* {currentWeight, status}, and payloads that leave currentWeight out
UpdateData ==
  {[currentWeight |-> w, status |-> b] : w \in {0, 500, 1000}, b \in BOOLEAN}
    \cup {[verified |-> b] : b \in BOOLEAN}
    \cup {[maxWeight |-> m] : m \in {500, 2000}}

InitUpdate ==
  /\ EngineIdle
  /\ dbLocations = <<addLocation("A01-0-1", <<"A">>, <<"0", "1">>, <<"0">>)>>
  /\ dbItems = <<>>
  /\ dbActions = <<>>
  /\ allocationTasks = {}
  /\ suggestedLocations = <<>>
  /\ selectedAction = null
  /\ scanDialog = [open |-> FALSE, step |-> "item"]
  /\ request = [op |-> "updateLocation", calls |-> 0]
  /\ response = NoResponse
  /\ peer = NoPeer

\* updateLocation(id, data) on the stored document
UpdateLocation ==
  /\ request.op = "updateLocation"
  /\ request.calls < MaxUpdates
  /\ \E data \in UpdateData :
       /\ dbLocations' = updateLocation(dbLocations, 1, data)
       /\ request' = [op |-> "updateLocation", calls |-> request.calls + 1, data |-> data]
  /\ response' = [done |-> TRUE]
  /\ UNCHANGED peer
  /\ UNCHANGED <<dbItems, dbActions, allocationTasks, suggestedLocations, selectedAction,
                 scanDialog>>
  /\ UNCHANGED engineVars

NextUpdate == UpdateLocation

SpecUpdate == InitUpdate /\ [][NextUpdate]_vars

----------------------------------------------------------------------------
(* Specification of one addItem, addAction or createPickAction call on empty *)
(* collections: src/src/lib/firebase/items.ts, actions.ts.  Text fields are  *)
(* sequences of characters; timestamps, metadata and operator are left out. *)

RECURSIVE TrimStart(_)
TrimStart(s) == IF Len(s) > 0 /\ s[1] = " " THEN TrimStart(Tail(s)) ELSE s

RECURSIVE TrimEnd(_)
TrimEnd(s) ==
  IF Len(s) > 0 /\ s[Len(s)] = " " THEN TrimEnd(SubSeq(s, 1, Len(s) - 1)) ELSE s

\* String.prototype.trim
trim(s) == TrimEnd(TrimStart(s))

\* `value?.trim() || null` for a text that is present
TrimOrNull(s) == IF trim(s) = <<>> THEN <<"(", "n", "u", "l", "l", ")">> ELSE trim(s)

\* isNaN(weight) || weight <= 0 with 0 let through
InvalidWeight_zeroAllowed(w) == w.nan \/ Sign(w) = -1

\* isNaN(weight) || weight <= 0
InvalidWeight(w) == w.nan \/ Le(w, Num(0))

validCategories == {"raw", "finished", "packaging", "spare"}

validActionTypes == {"in", "out"}

\* validStatuses of addItem
validItemStatuses == {"pending", "placed", "removed"}

\* validStatuses of addAction
validActionStatuses == {"pending", "in-progress", "completed"}

\* the result of a call: the error thrown ("none" when it returned), the
\* collection afterwards, and the id returned
Thrown(db, message) == [threw |-> message, db |-> db, id |-> null]

Added(db, document) == [threw |-> "none", db |-> Append(db, document), id |-> Len(db) + 1]

addItem(db, data) ==
  IF data.itemCode = <<>> \/ data.systemCode = <<>> \/ data.description = <<>>
       \/ data.category = ""
    THEN Thrown(db, "Missing required fields")
  ELSE IF InvalidWeight(data.weight)
    THEN Thrown(db, "Invalid weight value")
  ELSE IF data.category \notin validCategories
    THEN Thrown(db, "Invalid category")
  ELSE IF data.status \notin validItemStatuses
    THEN Thrown(db, "Invalid status")
  ELSE Added(db, [itemCode |-> trim(data.itemCode),
                  systemCode |-> trim(data.systemCode),
                  description |-> trim(data.description),
                  weight |-> data.weight,
                  category |-> data.category,
                  status |-> data.status,
                  locationVerified |-> FALSE])

addAction(db, data) ==
  IF data.itemId = "" \/ data.itemCode = <<>> \/ data.systemCode = <<>>
       \/ data.description = <<>> \/ data.category = ""
    THEN Thrown(db, "Missing required fields")
  ELSE IF InvalidWeight(data.weight)
    THEN Thrown(db, "Invalid weight value")
  ELSE IF data.category \notin validCategories
    THEN Thrown(db, "Invalid category")
  ELSE IF data.actionType \notin validActionTypes
    THEN Thrown(db, "Invalid action type")
  ELSE IF data.status \notin validActionStatuses
    THEN Thrown(db, "Invalid status")
  ELSE Added(db, [itemId |-> data.itemId,
                  itemCode |-> trim(data.itemCode),
                  systemCode |-> trim(data.systemCode),
                  description |-> trim(data.description),
                  category |-> data.category,
                  weight |-> data.weight,
                  location |-> TrimOrNull(data.location),
                  actionType |-> data.actionType,
                  status |-> data.status,
                  department |-> TrimOrNull(data.department)])

createPickAction(db, item, department) ==
  IF item.id = "" \/ item.systemCode = <<>> \/ item.itemCode = <<>>
       \/ item.description = <<>> \/ item.category = ""
    THEN Thrown(db, "Invalid item data: missing required fields")
  ELSE IF trim(department) = <<>>
    THEN Thrown(db, "Department is required for pick actions")
  ELSE addAction(db, [itemId |-> item.id,
                      itemCode |-> item.itemCode,
                      systemCode |-> item.systemCode,
                      description |-> item.description,
                      category |-> item.category,
                      weight |-> item.weight,
                      location |-> item.location,
                      actionType |-> "out",
                      status |-> "pending",
                      department |-> trim(department)])

\* texts typed into a field: nothing, a blank, a word with a blank after it
Texts == {<<>>, <<" ">>, <<"a", " ">>}

\* weights handed over: NaN, a negative weight, zero, a weight
AddWeights == {NaN, Num(0 - 1), Num(0), Num(500)}

AddCategories == {"", "raw", "spare", "other"}

AddStatuses == {"pending", "placed", "removed", "in-progress", "completed", "lost"}

AddActionTypes == {"in", "out", "move"}

ItemIds == {"", "item1"}

\* the calls examined
AddRequests ==
  {[op |-> "addItem",
    data |-> [itemCode |-> c, systemCode |-> <<"S">>, description |-> d, weight |-> w,
              category |-> k, status |-> t]] :
     c \in Texts, d \in Texts, w \in AddWeights, k \in AddCategories, t \in AddStatuses}
  \cup
  {[op |-> "addAction",
    data |-> [itemId |-> i, itemCode |-> c, systemCode |-> <<"S">>, description |-> <<"d">>,
              weight |-> w, category |-> k, location |-> <<>>, actionType |-> y,
              status |-> t, department |-> <<>>]] :
     i \in ItemIds, c \in Texts, w \in AddWeights, k \in AddCategories,
     y \in AddActionTypes, t \in AddStatuses}
  \cup
  {[op |-> "createPickAction",
    item |-> [id |-> i, itemCode |-> c, systemCode |-> <<"S">>, description |-> <<"d">>,
              weight |-> w, category |-> k, location |-> <<"A", "0", "1">>],
    department |-> d] :
     i \in ItemIds, c \in Texts, w \in AddWeights, k \in AddCategories, d \in Texts}

InitAdd ==
  /\ EngineIdle
  /\ request \in AddRequests
  /\ response = NoResponse
  /\ peer = NoPeer
  /\ dbLocations = <<>>
  /\ dbItems = <<>>
  /\ dbActions = <<>>
  /\ allocationTasks = {}
  /\ suggestedLocations = <<>>
  /\ selectedAction = null
  /\ scanDialog = [open |-> FALSE, step |-> "item"]

\* the call is made
AddDocument ==
  /\ ~response.done
  /\ LET call == CASE request.op = "addItem" -> addItem(dbItems, request.data)
                   [] request.op = "addAction" -> addAction(dbActions, request.data)
                   [] request.op = "createPickAction" ->
                        createPickAction(dbActions, request.item, request.department)
     IN /\ response' = [done |-> TRUE, threw |-> call.threw, id |-> call.id]
        /\ IF request.op = "addItem"
             THEN dbItems' = call.db /\ UNCHANGED dbActions
             ELSE dbActions' = call.db /\ UNCHANGED dbItems
  /\ UNCHANGED <<request, peer>>
  /\ UNCHANGED <<dbLocations, allocationTasks, suggestedLocations, selectedAction,
                 scanDialog>>
  /\ UNCHANGED engineVars

NextAdd == AddDocument

SpecAdd == InitAdd /\ [][NextAdd]_vars

----------------------------------------------------------------------------
(* Specification of initializeLocationIndexes run twice on a collection of  *)
(* documents some of whose fields are missing                               *)

\* the update condition with the flags left out
NeedsUpdate_maxWeightOnly(location) ==
  "maxWeight" \notin DOMAIN location \/ location.maxWeight = 0

\* !location.maxWeight || location.available === undefined
\*   || location.verified === undefined
NeedsUpdate(location) ==
  \/ "maxWeight" \notin DOMAIN location \/ location.maxWeight = 0
  \/ "available" \notin DOMAIN location
  \/ "verified" \notin DOMAIN location

\* LEVEL_MAX_WEIGHTS[location.level] || 500
MaxWeightOrDefault(level) ==
  IF level \in DOMAIN LEVEL_MAX_WEIGHTS /\ LEVEL_MAX_WEIGHTS[level] # 0
    THEN LEVEL_MAX_WEIGHTS[level]
    ELSE 500

\* the fields batch.update writes for one document
IndexUpdate(location) ==
  [maxWeight |-> MaxWeightOrDefault(location.level),
   currentWeight |-> CurrentWeightOrZero(location),
   available |-> TRUE,
   verified |-> TRUE]

\* initializeLocationIndexes(): the collection afterwards and the number returned
initializeLocationIndexes(db) ==
  [db |-> [i \in DOMAIN db |->
             IF NeedsUpdate(db[i]) THEN updateDoc(db[i], IndexUpdate(db[i])) ELSE db[i]],
   updates |-> Cardinality({i \in DOMAIN db : NeedsUpdate(db[i])})]

\* a field that is present with value v, or absent
Field(name, present, v) == IF present THEN [f \in {name} |-> v] ELSE <<>>

\* documents of a ground-level and of an unrecognised tier, with maxWeight
\* absent, 0 or set, and currentWeight, available and verified absent or set
RepairPool ==
  { updateDoc(updateDoc(updateDoc(updateDoc([level |-> l],
        Field("maxWeight", m >= 0, m)),
        Field("currentWeight", c >= 0, c)),
        Field("available", a < 2, a = 1)),
        Field("verified", v < 2, v = 1)) :
    l \in {<<"0">>, <<"5">>}, m \in {0 - 1, 0, 2000}, c \in {0 - 1, 500},
    a \in {0, 2}, v \in {1, 2} }

InitRepair ==
  /\ EngineIdle
  /\ dbLocations \in SeqsUpTo(RepairPool, MaxDocs)
  /\ request = [op |-> "initializeLocationIndexes", calls |-> 0]
  /\ response = NoResponse
  /\ peer = NoPeer
  /\ dbItems = <<>>
  /\ dbActions = <<>>
  /\ allocationTasks = {}
  /\ suggestedLocations = <<>>
  /\ selectedAction = null
  /\ scanDialog = [open |-> FALSE, step |-> "item"]

\* the routine is run, a first and a second time
InitializeLocationIndexes ==
  /\ request.op = "initializeLocationIndexes"
  /\ request.calls < 2
  /\ LET call == initializeLocationIndexes(dbLocations)
     IN /\ dbLocations' = call.db
        /\ response' = [done |-> TRUE, updates |-> call.updates]
  /\ request' = [request EXCEPT !.calls = @ + 1]
  /\ UNCHANGED peer
  /\ UNCHANGED <<dbItems, dbActions, allocationTasks, suggestedLocations, selectedAction,
                 scanDialog>>
  /\ UNCHANGED engineVars

NextRepair == InitializeLocationIndexes

SpecRepair == InitRepair /\ [][NextRepair]_vars

----------------------------------------------------------------------------
(* Vocabulary of the properties of one findOptimalLocation call.  Level     *)
(* totals are summed here over positions of the list, independently of the *)
(* engine's grouping.                                                      *)

Range(f) == {f[j] : j \in DOMAIN f}

Returned == pc = "returned" /\ result # null

\* candidate i is available and verified
Usable(i) == locations[i].available /\ locations[i].verified

\* candidates i and j lie in the same physical level
SameLevel(i, j) ==
  /\ locations[i].row = locations[j].row
  /\ locations[i].bay = locations[j].bay
  /\ locations[i].level = locations[j].level

RECURSIVE SumCurrentWeight(_)
SumCurrentWeight(S) ==
  IF S = {} THEN 0
  ELSE LET i == CHOOSE x \in S : TRUE
       IN locations[i].currentWeight + SumCurrentWeight(S \ {i})

\* currentWeight over every location of the list in candidate i's level
LevelTotal(i) == SumCurrentWeight({j \in DOMAIN locations : SameLevel(i, j)})

\* currentWeight over the available and verified locations of candidate i's level
UsableLevelTotal(i) ==
  SumCurrentWeight({j \in DOMAIN locations : SameLevel(i, j) /\ Usable(j)})

\* candidate i's tier has a configured maximum
Configured(i) == locations[i].level \in DOMAIN LEVEL_MAX_WEIGHTS

TierMax(i) == LEVEL_MAX_WEIGHTS[locations[i].level]

\* candidate i is usable and the requested weight fits under its level's cap
WithinCap(i) == Usable(i) /\ Configured(i) /\ UsableLevelTotal(i) + weight <= TierMax(i)

\* every usable candidate would breach its level's cap: the weight already on
\* its level plus the requested weight exceeds the tier maximum
AllBreachCap ==
  \A i \in DOMAIN locations :
    Usable(i) => Configured(i) /\ LevelTotal(i) + weight > TierMax(i)

\* the same with the level's weight taken over its usable locations only
AllBreachUsableCap ==
  \A i \in DOMAIN locations :
    Usable(i) => Configured(i) /\ UsableLevelTotal(i) + weight > TierMax(i)

\* no level of the list already holds more than its tier maximum
LevelsWithinCap ==
  \A i \in DOMAIN locations : Configured(i) => LevelTotal(i) <= TierMax(i)

\* the score the engine ranks usable candidate i by
RankingScore(i) ==
  ScoreOf(locations, weight, LevelGroups(locations, AvailableLocations(locations)), i)

\* the score candidate j would have were its flags ignored
RawScore(j) ==
  LET mates == {k \in DOMAIN locations : SameLevel(j, k) /\ (Usable(k) \/ k = j)}
      total == SumCurrentWeight(mates)
  IN Add(calculateDistanceScore(locations[j].row, locations[j].bay),
         calculateWeightScore(weight, locations[j].level,
                              <<[currentWeight |-> total]>>))

\* the candidates of validLocations holding the least score
LeastScored ==
  {i \in Range(validLocations) :
     /\ ~RankingScore(i).nan
     /\ \A j \in Range(validLocations) :
          ~RankingScore(j).nan => Le(RankingScore(i), RankingScore(j))}

Earliest(S) == CHOOSE m \in S : \A x \in S : m <= x

----------------------------------------------------------------------------
(* Properties of one findOptimalLocation call (specification Spec) *)

\* C1: a returned location L has a score less than or equal to the score of
\* every other candidate that is available, verified and whose level total plus
\* the requested (positive) weight does not exceed its tier's maximum.
C1_MinimumScore ==
  (Returned /\ weight > 0) =>
    \A j \in DOMAIN locations \ {result} :
      WithinCap(j) => Le(RankingScore(result), RankingScore(j))

\* C1 on the lists whose every tier is configured: there the returned location
\* has the least score
C1_MinimumScoreConfiguredTiers ==
  (Returned /\ weight > 0 /\ \A i \in DOMAIN locations : Configured(i)) =>
    \A j \in DOMAIN locations \ {result} :
      WithinCap(j) => Le(RankingScore(result), RankingScore(j))

\* C2: for a returned location L of a configured tier whose level is within its
\* cap, the currentWeight of ALL locations of the list in L's row, bay and level
\* (unavailable and unverified siblings included) plus the requested weight is
\* at most L's tier maximum.
C2_LevelCapRespected ==
  (Returned /\ weight > 0 /\ Configured(result)
     /\ LevelTotal(result) <= TierMax(result)) =>
    LevelTotal(result) + weight <= TierMax(result)

\* C2 with the level total taken over the available and verified locations only
C2_UsableLevelCapRespected ==
  (Returned /\ weight > 0 /\ Configured(result)) =>
    UsableLevelTotal(result) + weight <= TierMax(result)

\* C4: findOptimalLocation never returns a location whose available flag or
\* verified flag is false, even when that location has the lowest raw score.
C4_OnlyUsableReturned == Returned => Usable(result)

\* C4's case: an unusable candidate of the list scores strictly below the returned one
C4_Witness ==
  /\ Returned
  /\ \E j \in DOMAIN locations :
       ~Usable(j) /\ Gt(RankingScore(result), RawScore(j))

\* C5: a location whose level has no entry in LEVEL_MAX_WEIGHTS fails
\* eligibility: canAcceptWeight rejects it (it is not in validLocations) and
\* findOptimalLocation never returns it.
C5_UnconfiguredTierRejected ==
  (pc = "returned" /\ weight > 0) =>
    \A i \in DOMAIN locations :
      ~Configured(i) => i \notin Range(validLocations) /\ result # i

\* C6: when an available, verified candidate has a level with no configured
\* maximum, the call ends in a fault, never in null or a chosen location.
C6_FaultSignalled ==
  (pc # "ready" /\ weight > 0
     /\ \E i \in DOMAIN locations : Usable(i) /\ ~Configured(i)) =>
    pc = "threw"

\* C7: when several eligible candidates share the minimum score, the one that
\* appears earliest in the input list is returned.
C7_TiesToEarliest ==
  (pc = "returned" /\ weight > 0 /\ Cardinality(LeastScored) >= 2) =>
    result = Earliest(LeastScored)

\* C7 on the lists whose every tier is configured
C7_TiesToEarliestConfiguredTiers ==
  (pc = "returned" /\ weight > 0 /\ Cardinality(LeastScored) >= 2
     /\ \A i \in DOMAIN locations : Configured(i)) =>
    result = Earliest(LeastScored)

\* C8's scenario: one empty usable tier-0 location and one empty usable tier-1
\* location at the same row and bay, requiredWeight = 100, the call returned
C8_Scenario ==
  /\ pc = "returned"
  /\ weight = 100
  /\ Len(locations) = 2
  /\ \A i \in DOMAIN locations : Usable(i) /\ locations[i].currentWeight = 0
  /\ locations[1].row = locations[2].row
  /\ locations[1].bay = locations[2].bay
  /\ {locations[1].level, locations[2].level} = {<<"0">>, <<"1">>}

\* C8 as stated: in the scenario the tier-0 location is returned.
C8_Tier0Selected ==
  C8_Scenario => result # null /\ locations[result].level = <<"0">>

\* C8 as amended: in the scenario the tier-1 location is returned (its
\* capacityScore is 500 lower, its heightPenalty only 200 higher).
C8_Tier1Selected ==
  C8_Scenario => result # null /\ locations[result].level = <<"1">>

C8_Witness == C8_Scenario /\ result # null /\ locations[result].level = <<"1">>

\* C10: the call returns null, and does not throw, when the candidate list is
\* empty, when no candidate is available and verified, or when every available
\* and verified candidate would breach its level cap (stated for lists none of
\* whose levels is already over its cap).
C10_NullNeverError ==
  (pc # "ready" /\ LevelsWithinCap
     /\ (\/ Len(locations) = 0
         \/ \A i \in DOMAIN locations : ~Usable(i)
         \/ AllBreachCap)) =>
    pc = "returned" /\ result = null

\* C10 with a level's weight taken over its usable locations only, as the
\* engine sums it
C10_NullNeverErrorUsableAggregate ==
  (pc # "ready" /\ (\/ Len(locations) = 0
                    \/ \A i \in DOMAIN locations : ~Usable(i)
                    \/ AllBreachUsableCap)) =>
    pc = "returned" /\ result = null

\* usable candidates exist, each would breach its cap by the engine's sum, and
\* null is returned
C10_UsableAggregateCase ==
  /\ pc = "returned"
  /\ \E i \in DOMAIN locations : Usable(i)
  /\ AllBreachUsableCap
  /\ result = null

Eligible == {i \in DOMAIN locations : WithinCap(i)}

\* alphabetic rank of a row letter, 'A' = 0
RowRank(row) == CASE row = <<"A">> -> 0 [] row = <<"B">> -> 1 [] row = <<"C">> -> 2

\* integer value of a bay string
BayNumber(bay) == CASE bay = <<"0", "1">> -> 1 [] bay = <<"0", "2">> -> 2

\* the reference distanceScore of candidate i
DistanceReference(i) == RowRank(locations[i].row) * 100 + (BayNumber(locations[i].bay) - 1)

\* the eligible candidates are all in one tier and their levels hold equal weight
EligibleAlike ==
  \A i, j \in Eligible :
    /\ locations[i].level = locations[j].level
    /\ UsableLevelTotal(i) = UsableLevelTotal(j)

\* C15: when the eligible candidates are all in the same tier and their levels
\* hold equal aggregate weight, the eligible candidate with the smallest
\* distanceScore = rowRank * 100 + (bay - 1) is returned.
C15_NearestReturned ==
  (pc = "returned" /\ weight > 0 /\ Eligible # {} /\ EligibleAlike) =>
    /\ result \in Eligible
    /\ \A j \in Eligible : DistanceReference(result) <= DistanceReference(j)

\* C15 on the lists whose every tier is configured
C15_NearestReturnedConfiguredTiers ==
  (pc = "returned" /\ weight > 0 /\ Eligible # {} /\ EligibleAlike
     /\ \A i \in DOMAIN locations : Configured(i)) =>
    /\ result \in Eligible
    /\ \A j \in Eligible : DistanceReference(result) <= DistanceReference(j)

\* C15's example: empty tier-0 locations at row A bay 2 and row A bay 1, in that
\* order, weight 500: the bay-1 location is returned
C15_ExampleCase ==
  /\ pc = "returned" /\ weight = 500 /\ Len(locations) = 2
  /\ \A i \in DOMAIN locations :
       /\ Usable(i) /\ locations[i].currentWeight = 0
       /\ locations[i].row = <<"A">> /\ locations[i].level = <<"0">>
  /\ locations[1].bay = <<"0", "2">> /\ locations[2].bay = <<"0", "1">>
  /\ result = 2

\* index of a tier of the capacity table
TierIndex(level) ==
  CASE level = <<"0">> -> 0 [] level = <<"1">> -> 1 [] level = <<"2">> -> 2
    [] level = <<"3">> -> 3 [] level = <<"4">> -> 4

\* the reference score of eligible candidate i, times its tier maximum:
\*   (rowRank*100 + bay-1) + requiredWeight*tierIndex*2
\*     + |levelMax - (levelWeight + requiredWeight)|
\*     + ((levelWeight + requiredWeight) / levelMax) * 1000
ReferenceScoreTimesMax(i) ==
  LET levelMax == TierMax(i)
      newLevelWeight == UsableLevelTotal(i) + weight
  IN (DistanceReference(i) + weight * TierIndex(locations[i].level) * 2
        + Abs(levelMax - newLevelWeight)) * levelMax
     + newLevelWeight * 1000

\* C17: for every eligible candidate the score used for ranking equals the
\* reference formula, levelWeight being the aggregate currentWeight of the
\* candidate's level group.
C17_ScoreIsReference ==
  pc = "returned" =>
    \A i \in Eligible :
      StrictEq(RankingScore(i),
               [nan |-> FALSE, msi |-> 0,
                num |-> ReferenceScoreTimesMax(i), den |-> TierMax(i)])

\* C17's case: every term of the formula is positive for some ranked candidate
C17_Witness ==
  /\ pc = "returned"
  /\ weight > 0
  /\ \E i \in Eligible : DistanceReference(i) > 0 /\ UsableLevelTotal(i) > 0
  /\ \E i \in Eligible : TierIndex(locations[i].level) > 0

----------------------------------------------------------------------------
(* Properties of one findOptimalLocation call on siblings (specifications  *)
(* SpecSiblings and Spec)                                                  *)

\* the available and verified locations of candidate i's level
UsableSiblings(i) == {j \in DOMAIN locations : Usable(j) /\ SameLevel(i, j)}

\* the usable locations of one level get one eligibility decision and one score
SiblingsAlike ==
  \A i \in DOMAIN locations :
    Usable(i) =>
      \A j \in UsableSiblings(i) :
        /\ (i \in Range(validLocations)) <=> (j \in Range(validLocations))
        /\ RankingScore(i) = RankingScore(j)

C19_EarliestSiblingReturnedConfiguredTiers ==
  (pc = "returned" /\ \A i \in DOMAIN locations : Configured(i)) =>
    /\ SiblingsAlike
    /\ result # null => result = Earliest(UsableSiblings(result))

\* the returned location has a later-listed usable sibling and is not the
\* first of the list
C19_SiblingCase ==
  /\ Returned
  /\ result # 1
  /\ \E j \in UsableSiblings(result) : j > result
  /\ \A i \in DOMAIN locations : Configured(i)

\* the list getAvailableLocations hands on for the current list and weight
Prefiltered == getAvailableLocations(locations, weight)

\* candidate i is kept by the pre-filter
Kept(i) == locations[i] \in Range(Prefiltered)

\* the place of a kept candidate i in the pre-filtered list
PreIndex(i) == Cardinality({j \in 1..i : Kept(j)})

\* the pre-filter keeps what canAcceptWeight accepts, and findOptimalLocation
\* returns from the pre-filtered list what it returned from the whole list
PrefilterAgrees ==
  LET call == findOptimalLocation(Prefiltered, weight)
  IN /\ \A i \in DOMAIN locations : Kept(i) <=> i \in Range(validLocations)
     /\ ~call.throws
     /\ result = null => call.returns = {null}
     /\ result # null => Kept(result) /\ PreIndex(result) \in call.returns

\* C20: for every snapshot of available and verified locations and every
\* weight, getAvailableLocations keeps a location exactly when canAcceptWeight
\* accepts it against its level group, and findOptimalLocation returns the same
\* from the pre-filtered list as from the whole snapshot.
C20_PrefilterAgrees ==
  (pc = "returned" /\ \A i \in DOMAIN locations : Usable(i)) => PrefilterAgrees

\* C20 on the snapshots whose every tier is configured
C20_PrefilterAgreesConfiguredTiers ==
  (pc = "returned" /\ \A i \in DOMAIN locations : Usable(i) /\ Configured(i))
    => PrefilterAgrees

\* a snapshot of configured tiers where the pre-filter drops one location and
\* a later one is returned
C20_FilteringCase ==
  /\ Returned
  /\ \A i \in DOMAIN locations : Usable(i) /\ Configured(i)
  /\ \E i \in DOMAIN locations : ~Kept(i) /\ i < result

\* the weightScore the engine computes for candidate i
WeightScoreOf(i) ==
  calculateWeightScore(weight, locations[i].level,
    LevelLocationsOf(locations, LevelGroups(locations, AvailableLocations(locations)), i))

\* the candidates left by the filter on Number.MAX_SAFE_INTEGER
KeptBySentinelFilter ==
  LET scored == ScoredLocations(locations, weight, validLocations,
                                LevelGroups(locations, AvailableLocations(locations)))
  IN {scored[j].location : j \in DOMAIN scored}

\* C29: for every location of a recognised tier that passes canAcceptWeight,
\* calculateWeightScore never returns Number.MAX_SAFE_INTEGER, so the sentinel
\* filter after scoring removes no such candidate, and capacityScore is
\* levelMax - newLevelWeight >= 0.
C29_SentinelRedundant ==
  pc = "returned" =>
    \A i \in Range(validLocations) :
      Configured(i) =>
        /\ ~StrictEq(WeightScoreOf(i), MAX_SAFE_INTEGER)
        /\ i \in KeptBySentinelFilter
        /\ TierMax(i) - (UsableLevelTotal(i) + weight) >= 0

\* a candidate passed the filter with its level exactly at the maximum, next to
\* a usable candidate that did not pass
C29_Witness ==
  /\ Returned
  /\ \E i \in Range(validLocations) :
       Configured(i) /\ UsableLevelTotal(i) + weight = TierMax(i)
  /\ \E j \in DOMAIN locations : Usable(j) /\ j \notin Range(validLocations)

----------------------------------------------------------------------------
(* Properties of two findOptimalLocation calls (specification SpecTwice) *)

C11_ImplementationDefinedCase ==
  /\ second.called
  /\ result # null
  /\ Cardinality(findOptimalLocation(locations, weight).returns) >= 2
  /\ second.result = result

----------------------------------------------------------------------------
(* Properties of one canAcceptWeight call (specification SpecAccept) *)

\* C9: for an available, verified location of a recognised tier, canAcceptWeight
\* returns true exactly when the level's aggregate currentWeight plus the weight
\* is at most the tier maximum; so a level at its cap rejects weight 1 and
\* accepts weight 0, and a placement landing exactly on the cap is accepted.
C9_AcceptIffWithinCap ==
  (pc = "checked" /\ probe.available /\ probe.verified
     /\ probe.level \in DOMAIN LEVEL_MAX_WEIGHTS) =>
    LET levelWeight == SumCurrentWeight(DOMAIN locations)
        levelMax == LEVEL_MAX_WEIGHTS[probe.level]
    IN /\ accepted <=> (levelWeight + weight <= levelMax)
       /\ (levelWeight = levelMax /\ weight = 1) => ~accepted
       /\ (levelWeight = levelMax /\ weight = 0) => accepted
       /\ (levelWeight + weight = levelMax) => accepted

\* C9's case: a positive weight lands exactly on the cap and is accepted
C9_Witness ==
  /\ pc = "checked" /\ probe.available /\ probe.verified
  /\ probe.level \in DOMAIN LEVEL_MAX_WEIGHTS
  /\ weight > 0
  /\ SumCurrentWeight(DOMAIN locations) + weight = LEVEL_MAX_WEIGHTS[probe.level]
  /\ accepted

\* C9's boundary: a level at exactly its cap rejects weight 1
C9_AtCapRejectsOne ==
  /\ pc = "checked" /\ probe.available /\ probe.verified
  /\ probe.level \in DOMAIN LEVEL_MAX_WEIGHTS
  /\ weight = 1
  /\ SumCurrentWeight(DOMAIN locations) = LEVEL_MAX_WEIGHTS[probe.level]
  /\ ~accepted

\* C9's boundary: a level at exactly its cap accepts weight 0
C9_AtCapAcceptsZero ==
  /\ pc = "checked" /\ probe.available /\ probe.verified
  /\ probe.level \in DOMAIN LEVEL_MAX_WEIGHTS
  /\ weight = 0
  /\ SumCurrentWeight(DOMAIN locations) = LEVEL_MAX_WEIGHTS[probe.level]
  /\ accepted

----------------------------------------------------------------------------
(* Properties of the placement workflow *)

\* the weight held by all locations of the level of the location at position i
DbLevelTotal(i) ==
  LET mates == SelectSeq(dbLocations, LAMBDA l : getLevelId(l) = getLevelId(dbLocations[i]))
  IN ReduceWeight(mates, 1, 0)

\* C3: after any sequence of committed placements and picks that starts from
\* a warehouse whose locations are all empty, the weights of the locations of
\* every (row, bay, level) sum to at most the maximum of the level's tier
C3_LevelCapInvariant ==
  \A i \in DOMAIN dbLocations :
    dbLocations[i].level \in DOMAIN LEVEL_MAX_WEIGHTS =>
      DbLevelTotal(i) <= LEVEL_MAX_WEIGHTS[dbLocations[i].level]

\* the goods-in actions that are listed and hold a suggested location
SuggestedPending ==
  {a \in ActionList(dbActions) :
     dbActions[a].actionType = "in" /\ SuggestedFor(a) # NoCode}

\* C13: from the moment a location is suggested for a goods-in action until the
\* action is committed the location is reserved: no allocation call made in that
\* interval returns it.
C13_SuggestionReserved ==
  \A a \in SuggestedPending :
    \A w \in ItemWeights : SuggestedFor(a) \notin OptimalCodes(dbLocations, w)

\* C13's consequence: two listed goods-in actions never hold the same suggestion
C13_SuggestionsDistinct ==
  \A a, b \in SuggestedPending : a # b => SuggestedFor(a) # SuggestedFor(b)

\* C14: after any sequence of committed placements and picks every location's
\* stored currentWeight is at least 0; a pick that removes more weight than is
\* stored leaves 0.
C14_WeightNonNegative ==
  \A i \in DOMAIN dbLocations : dbLocations[i].currentWeight >= 0

\* C14's case: an item was picked twice from the location it alone was placed
\* at, so the second pick removed more than was stored, and the location holds 0
C14_Witness ==
  \E a, b \in DOMAIN dbActions :
    /\ a # b
    /\ dbActions[a].actionType = "out" /\ dbActions[a].status = "completed"
    /\ dbActions[b].actionType = "out" /\ dbActions[b].status = "completed"
    /\ dbActions[a].itemId = dbActions[b].itemId
    /\ Len(dbItems) = 1
    /\ \E i \in DOMAIN dbLocations :
         dbLocations[i].code = dbActions[a].location /\ dbLocations[i].currentWeight = 0

----------------------------------------------------------------------------
(* Properties of the scan dialog (specification SpecScan) *)

\* this step is a handleScan submission
ScanStep == request' # request /\ request'.op = "handleScan"

\* this step moves the dialog from step 'item' to step 'location'
Advanced == scanDialog.step = "item" /\ scanDialog'.step = "location"

\* this step rewrites a stored location, item or action
Committed ==
  \/ \E i \in DOMAIN dbLocations : dbLocations'[i] # dbLocations[i]
  \/ \E i \in DOMAIN dbItems : dbItems'[i] # dbItems[i]
  \/ \E a \in DOMAIN dbActions : dbActions'[a] # dbActions[a]

\* the text submitted in this step is not the one the dialog's step waits for
Mismatched ==
  IF scanDialog.step = "item"
    THEN request'.scannedCode # dbActions[selectedAction].systemCode
    ELSE request'.scannedCode # ExpectedLocation

\* C22: the step moves from 'item' to 'location' only when the scanned code is
\* the selected action's systemCode; the location, item and action writes
\* happen only when, in step 'location', the scanned code is the expected
\* location; a mismatched scan leaves the step and all persisted state
\* unchanged.
C22_TwoMatchingScans ==
  [][ /\ Advanced =>
           /\ request'.op = "handleScan"
           /\ request'.scannedCode = dbActions[selectedAction].systemCode
      /\ Committed =>
           /\ request'.op = "handleScan"
           /\ scanDialog.open /\ scanDialog.step = "location"
           /\ request'.scannedCode = ExpectedLocation
      /\ (ScanStep /\ Mismatched) => UNCHANGED flowVars ]_vars

\* an 'in' and an 'out' action have been committed and a wrong text was scanned last
C22_Witness ==
  /\ \E a \in DOMAIN dbActions :
       dbActions[a].actionType = "in" /\ dbActions[a].status = "completed"
  /\ \E a \in DOMAIN dbActions :
       dbActions[a].actionType = "out" /\ dbActions[a].status = "completed"
  /\ request = [op |-> "handleScan", scannedCode |-> "X"]
  /\ scanDialog = [open |-> TRUE, step |-> "location"]

\* C25: a goods-in action for which no suggested location has been cached can
\* never be completed: in step 'location' every scanned code is rejected and
\* no location, item or action write occurs, until an allocation call returns a
\* location for that action.
C25_UnsuggestedNeverCompleted ==
  [][\A a \in DOMAIN dbActions :
       (dbActions[a].actionType = "in" /\ a \notin DOMAIN suggestedLocations) =>
         /\ dbActions'[a] = dbActions[a]
         /\ dbItems'[dbActions[a].itemId] = dbItems[dbActions[a].itemId]
         /\ (selectedAction = a /\ scanDialog.open /\ scanDialog.step = "location"
               /\ ScanStep)
              => UNCHANGED flowVars ]_vars

\* an 'in' action without a suggestion is selected, the dialog waits for the
\* location, and a location label was scanned last
C25_Witness ==
  /\ selectedAction # null
  /\ dbActions[selectedAction].actionType = "in"
  /\ dbActions[selectedAction].status = "pending"
  /\ selectedAction \notin DOMAIN suggestedLocations
  /\ scanDialog = [open |-> TRUE, step |-> "location"]
  /\ request = [op |-> "handleScan", scannedCode |-> "A01-4-1"]

----------------------------------------------------------------------------
(* Properties of addItem, addAction and createPickAction (specification    *)
(* SpecAdd)                                                                *)

\* the input of an addItem or addAction call is invalid: a required text field
\* is empty, the weight is NaN or not positive, the category or the status is
\* not an allowed one, or the action type is neither 'in' nor 'out'
InvalidInput ==
  /\ request.op \in {"addItem", "addAction"}
  /\ \/ \E f \in {"itemCode", "systemCode", "description"} : Len(request.data[f]) = 0
     \/ request.data.category = ""
     \/ request.op = "addAction" /\ request.data.itemId = ""
     \/ request.data.weight.nan
     \/ ~request.data.weight.nan /\ Sign(request.data.weight) # 1
     \/ request.data.category \notin {"raw", "finished", "packaging", "spare"}
     \/ request.op = "addItem"
          /\ request.data.status \notin {"pending", "placed", "removed"}
     \/ request.op = "addAction"
          /\ request.data.status \notin {"pending", "in-progress", "completed"}
     \/ request.op = "addAction" /\ request.data.actionType \notin {"in", "out"}

\* the department of a createPickAction call holds nothing but blanks
BlankDepartment ==
  /\ request.op = "createPickAction"
  /\ \A j \in DOMAIN request.department : request.department[j] = " "

NothingWritten == dbItems = <<>> /\ dbActions = <<>>

\* C27: addItem and addAction reject invalid input with an error and write no
\* document; createPickAction also rejects a blank department, and every
\* action it creates has actionType 'out' and status 'pending'.
C27_InvalidInputRejected ==
  response.done =>
    /\ (InvalidInput \/ BlankDepartment) => (response.threw # "none" /\ NothingWritten)
    /\ request.op = "createPickAction" =>
         \A a \in DOMAIN dbActions :
           dbActions[a].actionType = "out" /\ dbActions[a].status = "pending"

\* an addItem call with weight 0 and an otherwise valid input was rejected
C27_Witness ==
  /\ response.done
  /\ request.op = "addItem"
  /\ request.data.weight = Num(0)
  /\ response.threw = "Invalid weight value"
  /\ NothingWritten

\* a createPickAction call created its action
C27_PickCreatedCase ==
  /\ response.done
  /\ request.op = "createPickAction"
  /\ Len(dbActions) = 1
  /\ response.threw = "none"

\* a call with a blank in a required text field wrote a document whose field is empty
C27_BlankFieldCase ==
  /\ response.done
  /\ request.op = "addItem"
  /\ Len(dbItems) = 1
  /\ dbItems[1].itemCode = <<>>

----------------------------------------------------------------------------
(* Properties of initializeLocationIndexes (specification SpecRepair) *)

\* the document lacks maxWeight, or its available or verified is undefined
LacksIndex(doc) ==
  \/ "maxWeight" \notin DOMAIN doc
  \/ "available" \notin DOMAIN doc
  \/ "verified" \notin DOMAIN doc

\* the document lacks maxWeight or holds 0 there, or its available or verified
\* is undefined
LacksIndexOrZero(doc) ==
  LacksIndex(doc) \/ ("maxWeight" \in DOMAIN doc /\ doc.maxWeight = 0)

\* the tier maximum, 500 when the tier is unrecognised
RepairedMaxWeight(doc) ==
  CASE doc.level = <<"0">> -> 2000 [] doc.level = <<"1">> -> 1500
    [] doc.level = <<"2">> -> 1000 [] doc.level = <<"3">> -> 750
    [] doc.level = <<"4">> -> 500 [] OTHER -> 500

\* doc has become the repaired form of old
RepairedFrom(doc, old) ==
  /\ DOMAIN doc = DOMAIN old \cup {"maxWeight", "currentWeight", "available", "verified"}
  /\ doc.maxWeight = RepairedMaxWeight(old)
  /\ doc.currentWeight = IF "currentWeight" \in DOMAIN old THEN old.currentWeight ELSE 0
  /\ doc.available /\ doc.verified
  /\ doc.level = old.level

\* this run updates exactly the documents that satisfy `lacks`, returns their
\* number, and a second run updates nothing and returns 0
RepairsExactly(lacks(_)) ==
  /\ Len(dbLocations') = Len(dbLocations)
  /\ request.calls = 0 =>
       /\ \A i \in DOMAIN dbLocations :
            IF lacks(dbLocations[i])
              THEN RepairedFrom(dbLocations'[i], dbLocations[i])
              ELSE dbLocations'[i] = dbLocations[i]
       /\ response'.updates = Cardinality({i \in DOMAIN dbLocations : lacks(dbLocations[i])})
  /\ request.calls = 1 =>
       dbLocations' = dbLocations /\ response'.updates = 0

\* C28: initializeLocationIndexes updates exactly the documents that lack
\* maxWeight or have available or verified undefined, setting maxWeight to the
\* tier maximum (500 for an unrecognised tier), keeping currentWeight (0 if
\* missing) and setting available and verified; the others are unchanged, it
\* returns the number updated, and a second run updates nothing and returns 0.
C28_RepairsLackingDocuments == [][RepairsExactly(LacksIndex)]_vars

\* C28 with a maxWeight of 0 counted as lacking
C28_RepairsLackingOrZeroDocuments == [][RepairsExactly(LacksIndexOrZero)]_vars

\* both runs are done on a collection of a document that was complete and a
\* document of an unrecognised tier that lacked maxWeight and currentWeight
C28_Witness ==
  /\ request = [op |-> "initializeLocationIndexes", calls |-> 2]
  /\ response = [done |-> TRUE, updates |-> 0]
  /\ Len(dbLocations) = 2
  /\ dbLocations[1] = [level |-> <<"0">>, maxWeight |-> 2000, currentWeight |-> 500,
                        available |-> FALSE, verified |-> TRUE]
  /\ dbLocations[2] = [level |-> <<"5">>, maxWeight |-> 500, currentWeight |-> 0,
                        available |-> TRUE, verified |-> TRUE]

----------------------------------------------------------------------------
(* Properties of the item status (specification SpecFlow) *)

\* the place of a status on the chain pending -> placed -> removed
StatusRank(status) ==
  CASE status = "pending" -> 1 [] status = "placed" -> 2 [] status = "removed" -> 3

\* this step completes action a
Completes(a) == dbActions[a].status # "completed" /\ dbActions'[a].status = "completed"

\* an item has a location exactly when it is placed
LocatedIffPlaced(items) ==
  \A i \in DOMAIN items : (items[i].location # NoCode) <=> (items[i].status = "placed")

\* in this step every item keeps its status or moves one place forward, and a
\* completed action leaves its item placed at the scanned location ('in') or
\* removed without a location ('out')
StatusForward ==
  /\ \A i \in DOMAIN dbItems :
       dbItems'[i].status # dbItems[i].status =>
         StatusRank(dbItems'[i].status) = StatusRank(dbItems[i].status) + 1
  /\ \A a \in DOMAIN dbActions :
       Completes(a) =>
         LET item == dbItems'[dbActions[a].itemId]
         IN IF dbActions[a].actionType = "in"
              THEN item.status = "placed" /\ item.location = dbActions'[a].location
              ELSE item.status = "removed" /\ item.location = NoCode
  /\ LocatedIffPlaced(dbItems')

\* C26: an item's status only moves forward along pending -> placed -> removed:
\* completing an 'in' action sets it to placed at the scanned location,
\* completing an 'out' action sets it to removed with the location cleared, an
\* item has a location exactly when it is placed, and a removed item is never
\* placed or removed again.
C26_StatusChain ==
  [][ /\ StatusForward
      /\ \A a \in DOMAIN dbActions :
           Completes(a) => dbItems[dbActions[a].itemId].status # "removed" ]_vars

\* C26 without its last clause
C26_StatusForward == [][StatusForward]_vars

\* two pick actions of one item are completed
C26_RemovedTwiceCase ==
  \E a, b \in DOMAIN dbActions :
    /\ a # b
    /\ dbActions[a].itemId = dbActions[b].itemId
    /\ dbActions[a].actionType = "out" /\ dbActions[a].status = "completed"
    /\ dbActions[b].actionType = "out" /\ dbActions[b].status = "completed"

----------------------------------------------------------------------------
(* Properties of the scan commit under failing writes (specification      *)
(* SpecFaults)                                                             *)

RECURSIVE SumItemWeight(_)
SumItemWeight(S) ==
  IF S = {} THEN 0
  ELSE LET i == CHOOSE x \in S : TRUE
       IN dbItems[i].weight + SumItemWeight(S \ {i})

\* the weight of the items recorded as placed at the location at position l
PlacedWeight(l) ==
  SumItemWeight({i \in DOMAIN dbItems :
                   dbItems[i].status = "placed" /\ dbItems[i].location = dbLocations[l].code})

\* C23: the scan commit is all-or-nothing: if one of its three writes fails,
\* none of the location's currentWeight and available, the item's status and
\* location, or the action's status has changed, so that a retried scan cannot
\* apply the weight change twice.
C23_AllOrNothing ==
  [][response' # response => UNCHANGED <<dbLocations, dbItems, dbActions>>]_vars

\* no location holds more than the items recorded as placed on it weigh
C23_WeightBacked ==
  \A l \in DOMAIN dbLocations : dbLocations[l].currentWeight <= PlacedWeight(l)

\* one item of 500 was received, its action is completed, and its location
\* holds 1000
C23_AppliedTwiceCase ==
  /\ Len(dbItems) = 1 /\ dbItems[1].weight = 500 /\ dbItems[1].status = "placed"
  /\ Len(dbActions) = 1 /\ dbActions[1].status = "completed"
  /\ \E l \in DOMAIN dbLocations :
       dbLocations[l].code = dbItems[1].location /\ dbLocations[l].currentWeight = 1000

----------------------------------------------------------------------------
(* Properties of the scan commit with two clients (specification          *)
(* SpecClients)                                                            *)

\* this step is a scan commit for action a that changes a location's weight
WeightCommitOf(a) ==
  /\ \E l \in DOMAIN dbLocations :
       dbLocations'[l].currentWeight # dbLocations[l].currentWeight
  /\ \/ selectedAction = a /\ selectedAction' = null
     \/ peer.selectedAction = a /\ peer'.selectedAction = null

\* C24: each warehouse action changes a location's currentWeight at most once,
\* also when two clients that both received the pending action run the scan
\* commit for it: no commit changes a weight for an action that is completed.
C24_WeightChangedOncePerAction ==
  [][\A a \in DOMAIN dbActions :
       WeightCommitOf(a) => dbActions[a].status # "completed"]_vars

\* one item of 500 was received, both clients have committed its 'in' action,
\* and its location holds 1000
C24_DoubleAdditionCase ==
  /\ Len(dbItems) = 1 /\ dbItems[1].weight = 500
  /\ Len(dbActions) = 1 /\ dbActions[1].status = "completed"
  /\ selectedAction = null /\ peer.selectedAction = null
  /\ peer.suggestedLocations # <<>> /\ suggestedLocations # <<>>
  /\ \E l \in DOMAIN dbLocations : dbLocations[l].currentWeight = 1000

----------------------------------------------------------------------------
(* Properties of updateLocation (specifications SpecUpdate and SpecFlow) *)

\* every stored location is available exactly when its stored weight is 0
AvailableIffEmpty ==
  \A i \in DOMAIN dbLocations :
    dbLocations[i].available <=> dbLocations[i].currentWeight = 0

\* C21: after any updateLocation call the stored location has available = true
\* exactly when its stored currentWeight is 0, also for calls whose update data
\* does not contain currentWeight and for a pick that leaves a remainder.
C21_AvailableIffEmpty == response.done => AvailableIffEmpty

\* C21 for the calls whose data carries currentWeight
C21_AvailableIffEmptyWeightGiven ==
  (response.done /\ "currentWeight" \in DOMAIN request.data) => AvailableIffEmpty

\* C21 over the workflow, whose only call site always passes currentWeight
C21_AvailableIffEmptyInWorkflow == AvailableIffEmpty

\* a pick has left a remainder on a location
C21_RemainderCase ==
  /\ \E a \in DOMAIN dbActions :
       dbActions[a].actionType = "out" /\ dbActions[a].status = "completed"
  /\ \E i \in DOMAIN dbLocations : dbLocations[i].currentWeight = 500

----------------------------------------------------------------------------
(* Properties of calculateWeightScore (specification SpecScore) *)

\* both levels are scored and the placement fits under the cap on both
BothEligible ==
  /\ pc = "scored"
  /\ scoreCall.heavier + weight <= LEVEL_MAX_WEIGHTS[scoreCall.level]

\* C16 as stated: of two eligible candidates of the same tier and the same
\* requested weight, the one whose level holds less weight never receives the
\* larger weightScore, in every tier of the capacity table.
C16_EmptierNeverWorse ==
  BothEligible => Le(scoreCall.scores[1], scoreCall.scores[2])

\* C16 as amended: the candidate on the emptier level never receives the larger
\* weightScore in the tiers whose maximum is at most 1000 (tiers 2, 3 and 4); in
\* tiers 0 and 1, whose maximum exceeds 1000, it always receives the larger one.
C16_EmptierNeverWorseUpperTiers ==
  BothEligible =>
    IF LEVEL_MAX_WEIGHTS[scoreCall.level] <= 1000
      THEN Le(scoreCall.scores[1], scoreCall.scores[2])
      ELSE Gt(scoreCall.scores[1], scoreCall.scores[2])

\* C16's case: in tier 3 the emptier level scores strictly lower
C16_Witness ==
  /\ BothEligible
  /\ scoreCall.level = <<"3">>
  /\ weight > 0
  /\ Gt(scoreCall.scores[2], scoreCall.scores[1])

\* C16 in the ground tier: the emptier level scores strictly higher
C16_GroundTierCase ==
  /\ BothEligible
  /\ scoreCall.level = <<"0">>
  /\ weight > 0
  /\ Gt(scoreCall.scores[1], scoreCall.scores[2])

----------------------------------------------------------------------------
(* Properties of the level grouping (specification SpecGroup) *)

\* the groups that hold the location at position i
GroupsOf(i) == {k \in DOMAIN grouping : i \in Range(grouping[k].members)}

\* currentWeight of the location at position i, a missing weight counted as 0
WeightOrZero(i) ==
  IF "currentWeight" \in DOMAIN locations[i] THEN locations[i].currentWeight ELSE 0

RECURSIVE SumWeightOrZero(_)
SumWeightOrZero(S) ==
  IF S = {} THEN 0
  ELSE LET i == CHOOSE x \in S : TRUE
       IN WeightOrZero(i) + SumWeightOrZero(S \ {i})

\* C18: the level grouping is a partition by physical level: two available and
\* verified locations are in the same group exactly when they have the same row,
\* bay and level; every such location is in exactly one group, once; a group's
\* aggregate is the sum of its members' currentWeight, a missing weight counted
\* as 0; an empty list gives an empty mapping and the aggregate 0.
C18_GroupingIsPartition ==
  pc = "grouped" =>
    /\ \A i, j \in DOMAIN locations :
         (Usable(i) /\ Usable(j)) =>
           ((GroupsOf(i) \cap GroupsOf(j) # {}) <=> SameLevel(i, j))
    /\ \A i \in DOMAIN locations :
         Cardinality(GroupsOf(i)) = IF Usable(i) THEN 1 ELSE 0
    /\ \A k \in DOMAIN grouping :
         /\ Len(grouping[k].members) = Cardinality(Range(grouping[k].members))
         /\ grouping[k].weight = SumWeightOrZero(Range(grouping[k].members))
    /\ Len(locations) = 0 =>
         DOMAIN grouping = {} /\ getLevelWeight(locations) = 0

\* C18's case: a group with two members of which one has no currentWeight,
\* next to a location that is not grouped
C18_Witness ==
  /\ pc = "grouped"
  /\ \E i \in DOMAIN locations : ~Usable(i)
  /\ \E k \in DOMAIN grouping :
       /\ Len(grouping[k].members) = 2
       /\ grouping[k].weight = 500
       /\ \E i \in Range(grouping[k].members) : "currentWeight" \notin DOMAIN locations[i]

\* C18's boundary: the empty list
C18_EmptyCase == pc = "grouped" /\ Len(locations) = 0 /\ DOMAIN grouping = {}

====
